---- MODULE Spec2Model ----
(***************************************************************************)
(* State-machine model of the framed transport of uamqp/_transport.py      *)
(* (_AbstractTransport, TCPTransport, SSLTransport).                       *)
(*                                                                         *)
(* One transport object is modelled together with the byte stream of the   *)
(* connection it is reading.  The socket is the environment: every recv,   *)
(* send, unwrap, shutdown and close picks its outcome nondeterministically.*)
(* read() and write() block in the socket, so they are modelled with a     *)
(* position (pc) and one step per socket call; connect() and close() are   *)
(* one step each, their socket outcomes being inputs of the step.          *)
(*                                                                         *)
(* One message object of uamqp/message.py (Message or BatchMessage) is     *)
(* modelled next to it: the underlying message as a record of its body     *)
(* sections, the constructors and the body operations as one step each.    *)
(***************************************************************************)
EXTENDS Integers, Sequences, FiniteSets, TLC

(***************************************************************************)
(* Bounds of the model.                                                    *)
(***************************************************************************)
\* Width in bits of the signed length argument of sock.recv.  The source
\* has 32 (SIGNED_INT_MAX = 0x7FFFFFFF); TLC's integers are 32-bit and could
\* not hold a frame size above that, so the word is scaled down.  read()
\* only compares sizes with SIGNED_INT_MAX and subtracts, so the scaled
\* word takes the same branches.
IntBits == 5
\* Frames the peer puts on the wire in one behaviour.
MaxFrames == 2
\* Bytes one short delivery of recv brings.
Chunk == 5
\* Sockets that can be open at the same time.
MaxSock == 2
\* Length of the byte string handed to write().
MaxWrite == 2
\* Addresses getaddrinfo returns for one address family.
MaxAddrs == 1
\* Inner payloads handed to a BatchMessage.
MaxBatch == 2
\* Body sections one message holds.
MaxBody == 3
\* Positions a List is resized to and indexed at
MaxList == 3
\* Entries a Map takes
MaxMap == 2

(***************************************************************************)
(* Program constants.                                                      *)
(***************************************************************************)
SIGNED_INT_MAX == 2^(IntBits - 1) - 1
EMPTY_BUFFER == <<>>
None == 0

EAGAIN == "EAGAIN"
EINTR == "EINTR"
ENOENT == "ENOENT"
\* errno.EWOULDBLOCK is the same number as errno.EAGAIN on POSIX
EWOULDBLOCK == EAGAIN
ECONNRESET == "ECONNRESET"
\* the errno of an exception built without one: IOError('...'), socket.timeout()
NoErrno == "None"

_UNAVAIL == {EAGAIN, EINTR, ENOENT, EWOULDBLOCK}

\* _errnos, the default argument of TCPTransport._read / SSLTransport._read
ReadErrnos(k) == IF k = "SSL" THEN {ENOENT, EAGAIN, EINTR} ELSE {EAGAIN, EINTR}

\* errnos a socket call of the model may fail with (EAGAIN is handled as EINTR
\* is wherever the code looks at an errno)
Errnos == {EINTR, ENOENT, ECONNRESET}
\* errnos a send of the model fails with: one of _UNAVAIL, one outside it
SendErrnos == {EINTR, ECONNRESET}

(***************************************************************************)
(* Byte strings: sequences of 0..255, sliced as Python slices them.        *)
(***************************************************************************)
Min(a, b) == IF a <= b THEN a ELSE b
Max(a, b) == IF a >= b THEN a ELSE b

\* s[:n] of Python, n possibly negative or beyond the end
SliceTo(s, n) ==
    IF n >= 0 THEN SubSeq(s, 1, Min(n, Len(s)))
    ELSE SubSeq(s, 1, Max(Len(s) + n, 0))

\* s[n:] of Python
SliceFrom(s, n) ==
    IF n >= 0 THEN SubSeq(s, Min(n, Len(s)) + 1, Len(s))
    ELSE SubSeq(s, Max(Len(s) + n, 0) + 1, Len(s))

IsPrefix(s, t) == Len(s) <= Len(t) /\ SubSeq(t, 1, Len(s)) = s

\* struct.unpack('>I', b), struct.unpack('>H', b)
UnpackI(b) == ((b[1] * 256 + b[2]) * 256 + b[3]) * 256 + b[4]
UnpackH(b) == b[1] * 256 + b[2]

AMQP == <<65, 77, 81, 80>>

\* unpack_frame_header: size None is the field isNone
unpack_frame_header(data) ==
    [ isNone     |-> SubSeq(data, 1, 4) = AMQP,
      size       |-> IF SubSeq(data, 1, 4) = AMQP THEN 0 ELSE UnpackI(SubSeq(data, 1, 4)),
      offset     |-> data[5],
      frame_type |-> data[6],
      channel    |-> UnpackH(SubSeq(data, 7, 8)) ]

\* Python's "not size" for size None or an int
NotSizeNoneOnly(h) == h.isNone
NotSize(h) == h.isNone \/ h.size = 0

(***************************************************************************)
(* The peer: frames it can put on the wire (header layout of section 4.4). *)
(***************************************************************************)
PackHeader(size, doff, type, channel) ==
    << (size \div 16777216) % 256, (size \div 65536) % 256,
       (size \div 256) % 256, size % 256,
       doff, type, channel \div 256, channel % 256 >>

Fill(n, b) == [i \in 1..n |-> b]

\* a frame whose payload is n bytes of value b
WireFrame(n, b, channel) == PackHeader(n + 8, 2, 0, channel) \o Fill(n, b)

\* payload bytes are below 128: should payload bytes ever be parsed as a
\* header, the size they spell stays below 2^31
SmallFrame == WireFrame(2, 33, 1)
\* a frame whose declared size is above SIGNED_INT_MAX, payload in two reads
BigFrame == WireFrame(SIGNED_INT_MAX + 1, 66, 3)

FramePool == {SmallFrame, BigFrame}

\* protocol headers: 'AMQP', protocol-id, major, minor, revision
AmqpHeader == AMQP \o <<0, 1, 0, 0>>
TlsHeader == AMQP \o <<2, 1, 0, 0>>
\* empty frames: size 0, of type 0 and of type 1
Heartbeat == PackHeader(0, 2, 0, 0)
EmptySasl == PackHeader(0, 2, 1, 0)
\* a frame of type 1 and a frame of type 0 whose doff is 1, each with 2 payload bytes
SaslFrame == PackHeader(10, 2, 1, 0) \o Fill(2, 44)
ShortDoffFrame == PackHeader(10, 1, 0, 0) \o Fill(2, 55)

ControlPool == {AmqpHeader, Heartbeat, EmptySasl, SaslFrame, ShortDoffFrame}

\* what a server may answer to a protocol header
NegotiatePool == {TlsHeader, AmqpHeader, SmallFrame}

\* byte strings a caller hands to write()
WriteInputs == {[i \in 1..MaxWrite |-> 6 + i]}

(***************************************************************************)
(* State.                                                                  *)
(***************************************************************************)
VARIABLES
    kind,                   \* "TCP" (TCPTransport) or "SSL" (SSLTransport)
    raise_on_initial_eintr, \* constructor argument
    connected,              \* self.connected
    sock,                   \* self.sock: None or the id of a socket
    _read_buffer,            \* self.__read_buffer
    openSocks,              \* sockets created and not yet closed
    framesSent,             \* number of frames the peer has sent so far
    wire,                   \* bytes the peer has sent on self.sock, not yet received
    pc,                     \* position: "idle", or where read()/write() is blocked
    verify_frame_type,      \* read(): argument, <<>> for None, <<t>> for type t
    read_frame_buffer,      \* read(): local
    frame_header,           \* read(): local
    payload,                \* read(): local, the first part of a two-part payload
    rbuf,                   \* _read(): local
    n,                      \* _read(): argument
    initial,                \* _read(): argument
    s,                      \* _write(): the bytes still to send
    call,                   \* history: the handler called last
    result,                 \* history: how that handler ended, and what it returned
    pre,                    \* history: connected and sock when it was called
    sockOps,                \* history: the socket calls it made
    sent,                   \* history: bytes the socket has accepted in a write() that has not failed
    wireLog,                \* history, kept while clean: frames the peer sent on this connection
    rcvd,                   \* history, kept while clean: frames read() returned on this connection
    unreturned,             \* history, kept while clean: bytes taken from the socket, not yet returned
    clean,                  \* history: no read() of this connection failed but by timeout
    msgClass,               \* the message object: "none", "Message" or "BatchMessage"
    _message,               \* self._message: the underlying message and its sections
    _body,                  \* self._body: "None", "DataBody", "SequenceBody", "ValueBody"
    _body_gen,              \* BatchMessage._body_gen: the payloads still to come
    mlog,                   \* history: the last operation on the message object
    state,                  \* self.state: "WaitingToBeSent" or "Complete"
    application_properties, \* self._message.application_properties
    message_annotations,    \* self._message.message_annotations
    handedOver,             \* history: get_message() has returned the message to a sender
    amqpvalue,              \* an AMQP value object (c_uamqp.AMQPValue)
    encoded,                \* the bytes the encoder made of it
    vlog                    \* history: the last operation on the value and what it gave

config == <<kind, raise_on_initial_eintr>>
conn == <<connected, sock, openSocks>>
readLocals == <<verify_frame_type, read_frame_buffer, frame_header, payload, rbuf, n, initial>>
log == <<wireLog, rcvd, unreturned>>
stream == <<wire, framesSent, wireLog, rcvd, unreturned, clean>>
vars == <<kind, raise_on_initial_eintr, connected, sock, _read_buffer, openSocks,
          framesSent, wire, pc, verify_frame_type, read_frame_buffer, frame_header,
          payload, rbuf, n, initial, s, call, result, pre, sockOps, sent,
          wireLog, rcvd, unreturned, clean,
          msgClass, _message, _body, _body_gen, mlog,
          state, application_properties, message_annotations, handedOver,
          amqpvalue, encoded, vlog>>
valueVars == <<amqpvalue, encoded, vlog>>
sectionVars == <<state, application_properties, message_annotations, handedOver>>
msgVars == <<msgClass, _message, _body, _body_gen, mlog, sectionVars>>
transportVars == <<kind, raise_on_initial_eintr, connected, sock, _read_buffer, openSocks,
                   framesSent, wire, pc, verify_frame_type, read_frame_buffer,
                   frame_header, payload, rbuf, n, initial, s, call, result, pre,
                   sockOps, sent, wireLog, rcvd, unreturned, clean>>

\* what a handler returned or raised
Outcome(status, errno) ==
    [ status |-> status, errno |-> errno, header |-> <<>>, channel |-> 0,
      hasPayload |-> FALSE, payload |-> <<>>, offset |-> 0 ]

\* the tuple read() returns: (frame_header, channel, payload, offset)
Returned(hdr, channel, hasPayload, pl, offset) ==
    [ status |-> "frame", errno |-> NoErrno, header |-> hdr, channel |-> channel,
      hasPayload |-> hasPayload, payload |-> pl, offset |-> offset ]

Snapshot == [ connected |-> connected, sock |-> sock ]

\* the history of the byte stream is dropped at the first call after a read()
\* that failed otherwise than by timeout
Track(x) == IF clean THEN x ELSE <<>>
CallStarts ==
    /\ wireLog' = Track(wireLog)
    /\ rcvd' = Track(rcvd)
    /\ unreturned' = Track(unreturned)

\* a socket call and whether it succeeded
Op(name, ok) == [ op |-> name, ok |-> ok ]

\* the recv and send calls of read() and write() are recorded once per handler
IO(name) == <<Op(name, TRUE)>>

\* the last recv of read() raised an errno of _errnos
Interrupted == <<Op("recv", FALSE)>>

OpNames(ops) == [i \in 1..Len(ops) |-> ops[i].op]

\* a call connect() makes: getaddrinfo for a family (k the number of addresses
\* it returned), sock.connect to the k-th address of a family, or a call of
\* _setup_transport
ConnOp(name, ok, family, k) == [ op |-> name, ok |-> ok, family |-> family, k |-> k ]

(***************************************************************************)
(* Values of uamqp/message.py.                                             *)
(***************************************************************************)
\* Python values handed in as a body or a payload: the type and the content
\* (the characters of a str, the bytes of a bytes, the items of a list, the
\* number of an int)
PyValue(type, v) == [ t |-> type, v |-> v ]
PyNone == PyValue("NoneType", <<>>)

\* the underlying message: its format and its body sections
MessageStore(fmt, data, sequence, value) ==
    [ exists |-> TRUE, fmt |-> fmt, data |-> data, sequence |-> sequence, value |-> value ]
NoMessage ==
    [ exists |-> FALSE, fmt |-> "default", data |-> <<>>, sequence |-> <<>>, value |-> <<>> ]

\* BatchMessage._body_gen: a generator yields its items once, a list again
\* each time it is iterated
Payloads(k, items) == [ kind |-> k, items |-> items ]
NoPayloads == Payloads("none", <<>>)

\* a section that holds a map: unset (None), or the dict it wraps
Dict(map) == [ isset |-> TRUE, map |-> map ]
NoDict == [ isset |-> FALSE, map |-> <<>> ]

\* history: the last operation on the message object, the underlying message
\* before it and the payloads it was given
MessageLog(name, raised, before, yielded) ==
    [ call |-> name, raised |-> raised, before |-> before, yielded |-> yielded ]
NoLog == MessageLog("none", FALSE, NoMessage, <<>>)

(***************************************************************************)
(* AMQP values (c_uamqp): a type tag and a payload.  The payload is the    *)
(* number of a numeric value, the bytes of a Binary, String, Symbol,       *)
(* Float, Double or Uuid, or the items of a composite: the elements of a   *)
(* List or Array, the keys and values of a Map interleaved, the descriptor *)
(* and the value of a Described.                                           *)
(***************************************************************************)
AMQPValue(tag, num, bytes, items) ==
    [ tag |-> tag, num |-> num, bytes |-> bytes, items |-> items ]
Scalar(tag, num) == AMQPValue(tag, num, <<>>, <<>>)
Bytes(tag, bytes) == AMQPValue(tag, 0, bytes, <<>>)
Composite(tag, items) == AMQPValue(tag, 0, <<>>, items)
NoValue == Composite("none", <<>>)

\* history: the operation, the position, the key and the value it was given,
\* the error it failed with, what it returned
ValueLog(op, index, key, item, error, returned) ==
    [ op |-> op, index |-> index, key |-> key, item |-> item, error |-> error,
      returned |-> returned ]
NoValueLog == ValueLog("none", 0, NoValue, NoValue, "None", <<>>)

(***************************************************************************)
(* __init__ (lines 123-134, 380-384)                                       *)
(***************************************************************************)
Init ==
    /\ kind \in {"TCP", "SSL"}
    /\ raise_on_initial_eintr \in BOOLEAN
    /\ connected = FALSE
    /\ sock = None
    /\ _read_buffer = EMPTY_BUFFER
    /\ openSocks = {}
    /\ framesSent = 0
    /\ wire = <<>>
    /\ pc = "idle"
    /\ verify_frame_type = <<>>
    /\ read_frame_buffer = EMPTY_BUFFER
    /\ frame_header = <<>>
    /\ payload = <<>>
    /\ rbuf = <<>>
    /\ n = 0
    /\ initial = FALSE
    /\ s = <<>>
    /\ call = "init"
    /\ result = Outcome("ok", NoErrno)
    /\ pre = [ connected |-> FALSE, sock |-> None ]
    /\ sockOps = <<>>
    /\ sent = <<>>
    /\ wireLog = <<>>
    /\ rcvd = <<>>
    /\ unreturned = <<>>
    /\ clean = TRUE
    /\ msgClass = "none"
    /\ _message = NoMessage
    /\ _body = "None"
    /\ _body_gen = NoPayloads
    /\ mlog = NoLog
    /\ state = "WaitingToBeSent"
    /\ application_properties = NoDict
    /\ message_annotations = NoDict
    /\ handedOver = FALSE
    /\ amqpvalue = NoValue
    /\ encoded = <<>>
    /\ vlog = NoValueLog

(***************************************************************************)
(* read() (lines 310-341) over _read() (lines 461-491, 527-549)            *)
(***************************************************************************)
ReadPcs == {"hdr", "pay", "pay1", "pay2"}

\* the locals of read() and _read() are gone when read() returns or raises
ReadEnds ==
    /\ pc' = "idle"
    /\ verify_frame_type' = <<>>
    /\ read_frame_buffer' = EMPTY_BUFFER
    /\ frame_header' = <<>>
    /\ payload' = <<>>
    /\ rbuf' = <<>>
    /\ n' = 0
    /\ initial' = FALSE

\* read(), line 331: what the except socket.timeout clause leaves in
\* self._read_buffer; buf is what _read() saved there (lines 488, 545)
TimeoutBuffer(rfb, buf) == rfb \o buf

\* read(), lines 330-332: self.connected after socket.timeout
ReadTimeoutDisconnects(c) == FALSE
ReadTimeoutConnected(c) == c

\* read(), lines 338-339: self.connected after an I/O error with errno e
ReadErrorKeepsConnected(e, c) == c
ReadErrorConnected(e, c) == IF e \notin _UNAVAIL THEN FALSE ELSE c

\* read(), line 328 and line 326: the length asked of the payload read
PayloadLen(size, hdr) == size - Len(hdr)
SecondPartLen(size) == size - SIGNED_INT_MAX

\* read(verify_frame_type=v) is called: line 311-314, up to the first recv
Read(v) ==
    /\ pc = "idle"
    /\ pc' = "hdr"
    /\ verify_frame_type' = v
    /\ read_frame_buffer' = EMPTY_BUFFER
    /\ frame_header' = <<>>
    /\ payload' = <<>>
    /\ rbuf' = _read_buffer
    /\ n' = 8
    /\ initial' = TRUE
    /\ call' = "read"
    /\ result' = Outcome("running", NoErrno)
    /\ pre' = Snapshot
    /\ sockOps' = <<>>
    /\ s' = <<>>
    /\ sent' = <<>>
    /\ CallStarts
    /\ UNCHANGED <<config, msgVars, valueVars, conn, _read_buffer, wire, framesSent, clean>>

\* read() raises socket.timeout: _read() saved rbuf (lines 487-489, 544-546),
\* read() puts the bytes of the frame read so far in front (lines 330-332)
RaiseTimeout ==
    /\ _read_buffer' = TimeoutBuffer(read_frame_buffer, rbuf)
    /\ connected' = ReadTimeoutConnected(connected)
    /\ ReadEnds
    /\ result' = Outcome("timeout", NoErrno)
    /\ UNCHANGED <<config, msgVars, valueVars, sock, openSocks, s, pre, call, sent, stream>>

\* read() raises an OSError with errno e (lines 333-340)
RaiseOSError(e) ==
    /\ _read_buffer' = rbuf
    /\ connected' = ReadErrorConnected(e, connected)
    /\ ReadEnds
    /\ result' = Outcome("ioerror", e)
    /\ clean' = FALSE
    /\ UNCHANGED <<config, msgVars, valueVars, sock, openSocks, s, pre, call, sent,
                   wire, framesSent, wireLog, rcvd, unreturned>>

Receiving == pc \in ReadPcs /\ Len(rbuf) < n /\ sock # None

\* recv returns k bytes, 1 <= k <= n - len(rbuf) (lines 471/534, 486/543)
RecvData ==
    /\ Receiving
    /\ \E k \in {Min(Chunk, Min(n - Len(rbuf), Len(wire))), Min(n - Len(rbuf), Len(wire))} \ {0} :
        /\ rbuf' = rbuf \o SubSeq(wire, 1, k)
        /\ wire' = SubSeq(wire, k + 1, Len(wire))
        /\ unreturned' = Track(unreturned \o SubSeq(wire, 1, k))
    /\ sockOps' = IO("recv")
    /\ UNCHANGED <<config, msgVars, valueVars, conn, _read_buffer, pc, verify_frame_type, read_frame_buffer,
                   frame_header, payload, n, initial, s, call, result, pre, sent,
                   framesSent, wireLog, rcvd, clean>>

\* recv returns b'': IOError('Server unexpectedly closed connection') (lines 484-485, 541-542)
RecvClosed ==
    /\ Receiving
    /\ sockOps' = IO("recv")
    /\ RaiseOSError(NoErrno)

\* recv raises socket.timeout, or on the TLS socket SSLError('timed out')
\* which line 475-476 turns into socket.timeout
RecvTimeout ==
    /\ Receiving
    /\ sockOps' = IO("recv")
    /\ RaiseTimeout

\* _read(), lines 480/537: whether an errno of _errnos is raised as a timeout
InterruptRaisesAlways(ini, flag) == flag
InterruptRaises(ini, flag) == ini /\ flag

\* recv raises socket.error with errno e (lines 472-483, 535-540)
RecvError ==
    /\ Receiving
    /\ \E e \in Errnos :
        IF e \in ReadErrnos(kind)
        THEN /\ sockOps' = Interrupted
             /\ IF InterruptRaises(initial, raise_on_initial_eintr)
                THEN RaiseTimeout
                ELSE \* continue: the loop calls recv again
                     UNCHANGED <<config, msgVars, valueVars, conn, _read_buffer, pc, readLocals, s, call,
                                 result, pre, sent, stream>>
        ELSE /\ sockOps' = IO("recv")
             /\ RaiseOSError(e)

\* self.sock is None: TCPTransport reads self.sock.read (AttributeError, which
\* read() does not catch), SSLTransport calls the recv of the socket it has
\* closed (OSError EBADF) or has no _quick_recv (AttributeError)
RecvNoSocket ==
    /\ pc \in ReadPcs /\ Len(rbuf) < n /\ sock = None
    /\ _read_buffer' = rbuf
    /\ ReadEnds
    /\ result' = Outcome("raised", NoErrno)
    /\ clean' = FALSE
    /\ UNCHANGED <<config, msgVars, valueVars, conn, s, pre, call, sent, sockOps,
                   wire, framesSent, wireLog, rcvd, unreturned>>

(***************************************************************************)
(* receive_frame() (lines 353-360): read(), then the decoder it hands the  *)
(* frame to.  The decoders are not part of the transport: the model keeps  *)
(* which one is called and with what arguments.                            *)
(***************************************************************************)
receive_frame(r) ==
    IF r.status # "frame"
    THEN [ status |-> r.status, decoder |-> "none", data |-> <<>>, offset |-> 0 ]
    ELSE IF ~r.hasPayload
    THEN [ status |-> "decoded", decoder |-> "decode_empty_frame", data |-> r.header,
           offset |-> 0 ]
    ELSE [ status |-> "decoded", decoder |-> "decode_frame", data |-> r.payload,
           offset |-> r.offset - 2 ]

\* negotiate(), lines 511-514: receive_frame(verify_frame_type=None) has
\* returned; the frame decode_empty_frame makes of a protocol header whose
\* protocol-id is 2 is a TLSHeaderFrame, every other frame is a mismatch
\* (ValueError)
IsTLSHeader(d) ==
    /\ d.decoder = "decode_empty_frame"
    /\ SubSeq(d.data, 1, 4) = AMQP
    /\ d.data[5] = 2

NegotiateResult(r) ==
    [r EXCEPT !.status = IF IsTLSHeader(receive_frame(r)) THEN "ok" ELSE "mismatch"]

\* read() returns (frame_header, channel, payload, offset)
Return(hdr, hasPayload, pl, buf) ==
    /\ _read_buffer' = buf
    /\ ReadEnds
    /\ LET r == Returned(hdr, unpack_frame_header(hdr).channel, hasPayload, pl,
                         unpack_frame_header(hdr).offset)
       IN  result' = IF call = "negotiate" THEN NegotiateResult(r) ELSE r
    /\ rcvd' = Track(Append(rcvd, hdr \o pl))
    /\ unreturned' = Track(SliceFrom(unreturned, Len(hdr) + Len(pl)))
    /\ UNCHANGED <<config, msgVars, valueVars, conn, s, pre, call, sent, sockOps, wire, framesSent,
                   wireLog, clean>>

\* _read(8, True) has its 8 bytes (line 490/548); read() lines 315-328
HeaderDone ==
    /\ pc = "hdr" /\ Len(rbuf) >= n
    /\ LET hdr == SliceTo(rbuf, n)
           buf == SliceFrom(rbuf, n)
           h == unpack_frame_header(hdr)
       IN  IF NotSize(h)
           THEN Return(hdr, FALSE, <<>>, buf)
           ELSE IF verify_frame_type # <<>> /\ h.frame_type # verify_frame_type[1]
           THEN \* ValueError, caught by neither except clause
                /\ _read_buffer' = buf
                /\ ReadEnds
                /\ result' = Outcome("unexpected", NoErrno)
                /\ clean' = FALSE
                /\ UNCHANGED <<config, msgVars, valueVars, conn, s, pre, call, sent, sockOps, wire,
                               framesSent, wireLog, rcvd, unreturned>>
           ELSE /\ frame_header' = hdr
                /\ read_frame_buffer' = read_frame_buffer \o hdr
                /\ _read_buffer' = buf
                /\ rbuf' = buf
                /\ initial' = FALSE
                /\ IF h.size > SIGNED_INT_MAX
                   THEN pc' = "pay1" /\ n' = SIGNED_INT_MAX
                   ELSE pc' = "pay" /\ n' = PayloadLen(h.size, hdr)
                /\ UNCHANGED <<config, msgVars, valueVars, conn, verify_frame_type, payload, s, pre,
                               call, result, sent, sockOps, stream>>

\* read(size - len(frame_header)) has its bytes: lines 328-329, 341
PayloadDone ==
    /\ pc = "pay" /\ Len(rbuf) >= n
    /\ Return(frame_header, TRUE, SliceTo(rbuf, n), SliceFrom(rbuf, n))

\* read(SIGNED_INT_MAX) has its bytes: line 325, then line 326 starts the second read
Part1Done ==
    /\ pc = "pay1" /\ Len(rbuf) >= n
    /\ payload' = SliceTo(rbuf, n)
    /\ _read_buffer' = SliceFrom(rbuf, n)
    /\ rbuf' = SliceFrom(rbuf, n)
    /\ n' = SecondPartLen(unpack_frame_header(frame_header).size)
    /\ pc' = "pay2"
    /\ UNCHANGED <<config, msgVars, valueVars, conn, verify_frame_type, read_frame_buffer, frame_header,
                   initial, s, pre, call, result, sent, sockOps, stream>>

\* read(size - SIGNED_INT_MAX) has its bytes: lines 326, 329, 341
Part2Done ==
    /\ pc = "pay2" /\ Len(rbuf) >= n
    /\ Return(frame_header, TRUE, payload \o SliceTo(rbuf, n), SliceFrom(rbuf, n))

\* the peer sends one whole frame of a pool
PeerSends(pool) ==
    /\ sock # None
    /\ framesSent < MaxFrames
    /\ framesSent' = framesSent + 1
    /\ \E f \in pool :
        /\ wire' = wire \o f
        /\ wireLog' = Track(Append(wireLog, f))
    /\ UNCHANGED <<config, msgVars, valueVars, conn, _read_buffer, pc, readLocals, s, call, result, pre,
                   sockOps, sent, rcvd, unreturned, clean>>

PeerSend == PeerSends(FramePool)
PeerSendControl == PeerSends(ControlPool)

(***************************************************************************)
(* write() (lines 343-351) over _write(): sock.sendall on the plain        *)
(* transport (line 523), the send loop of lines 493-507 on the TLS one     *)
(***************************************************************************)
\* write(), lines 349-350: self.connected after an I/O error with errno e
WriteErrorKeepsConnected(e, c) == c
WriteErrorConnected(e, c) == IF e \notin _UNAVAIL THEN FALSE ELSE c

\* write(), lines 346-347: self.connected after socket.timeout
WriteTimeoutConnected(c) == c

\* _write(), line 507: what is left to send after a send accepted k bytes
UnsentDropsTail(str, k) == SliceTo(str, 0 - k)
Unsent(str, k) == SliceFrom(str, k)

\* write(data) is called
Write ==
    /\ pc = "idle"
    /\ pc' = "write"
    /\ \E data \in WriteInputs : s' = data
    /\ sent' = <<>>
    /\ call' = "write"
    /\ result' = Outcome("running", NoErrno)
    /\ pre' = Snapshot
    /\ sockOps' = <<>>
    /\ CallStarts
    /\ UNCHANGED <<config, msgVars, valueVars, conn, _read_buffer, readLocals, wire, framesSent, clean>>

Sending == pc = "write" /\ sock # None

\* write() returns: to its caller, or into negotiate() (line 511)
WriteReturns ==
    IF call = "negotiate"
    THEN pc' = "neg" /\ result' = result
    ELSE pc' = "idle" /\ result' = Outcome("ok", NoErrno)

WriteRaises(status, e, c) ==
    /\ pc' = "idle"
    /\ result' = Outcome(status, e)
    /\ connected' = c
    /\ s' = <<>>
    /\ sent' = <<>>
    /\ UNCHANGED <<config, msgVars, valueVars, sock, openSocks, _read_buffer, readLocals,
                   call, pre, stream>>

\* TCPTransport: sock.sendall(s) sends everything
SendAll ==
    /\ Sending /\ kind = "TCP"
    /\ sent' = sent \o s
    /\ s' = <<>>
    /\ sockOps' = IO("send")
    /\ WriteReturns
    /\ UNCHANGED <<config, msgVars, valueVars, conn, _read_buffer, readLocals, call, pre, stream>>

\* SSLTransport: sock.send(s) accepts k bytes, the loop goes on with s[k:]
\* (lines 496-498, 507) and ends when nothing is left
SendSome ==
    /\ Sending /\ kind = "SSL"
    /\ \E k \in 1..Len(s) :
        /\ sent' = sent \o SubSeq(s, 1, k)
        /\ s' = Unsent(s, k)
        /\ IF Unsent(s, k) = <<>>
           THEN WriteReturns
           ELSE UNCHANGED <<pc, result>>
    /\ sockOps' = IO("send")
    /\ UNCHANGED <<config, msgVars, valueVars, conn, _read_buffer, readLocals, call, pre, stream>>

\* SSLTransport: sock.send returns 0 or raises ValueError (lines 499-506):
\* IOError('Socket closed')
SendZero ==
    /\ Sending /\ kind = "SSL"
    /\ sockOps' = IO("send")
    /\ WriteRaises("ioerror", NoErrno, WriteErrorConnected(NoErrno, connected))

\* the send raises socket.timeout
SendTimeout ==
    /\ Sending
    /\ sockOps' = IO("send")
    /\ WriteRaises("timeout", NoErrno, WriteTimeoutConnected(connected))

\* the send raises socket.error with errno e
SendError ==
    /\ Sending
    /\ sockOps' = IO("send")
    /\ \E e \in SendErrnos : WriteRaises("ioerror", e, WriteErrorConnected(e, connected))

\* self.sock is None: self._write is unset (NotImplementedError) or the
\* sendall of a closed socket, self.sock.send is an AttributeError
SendNoSocket ==
    /\ pc = "write" /\ sock = None
    /\ WriteRaises("raised", NoErrno, connected)
    /\ UNCHANGED sockOps

(***************************************************************************)
(* negotiate(): a no-op on the plain transport (lines 373-374); on the TLS *)
(* transport send_frame(0, TLSHeaderFrame()), then receive_frame (509-514) *)
(***************************************************************************)
\* the bytes send_frame hands to write() for a header frame (lines 363-370:
\* the performative is None, data is the 8-byte header)
HeaderFrameData(k) == IF k = "SSL" THEN TlsHeader ELSE AmqpHeader

Negotiate ==
    /\ pc = "idle"
    /\ call' = "negotiate"
    /\ pre' = Snapshot
    /\ sockOps' = <<>>
    /\ sent' = <<>>
    /\ CallStarts
    /\ IF kind = "SSL"
       THEN /\ pc' = "write"
            /\ s' = HeaderFrameData(kind)
            /\ result' = Outcome("running", NoErrno)
       ELSE /\ pc' = "idle"
            /\ s' = <<>>
            /\ result' = Outcome("ok", NoErrno)
    /\ UNCHANGED <<config, msgVars, valueVars, conn, _read_buffer, readLocals, wire, framesSent, clean>>

\* line 511: receive_frame(verify_frame_type=None), up to the first recv
NegotiateReceive ==
    /\ pc = "neg"
    /\ pc' = "hdr"
    /\ verify_frame_type' = <<>>
    /\ read_frame_buffer' = EMPTY_BUFFER
    /\ frame_header' = <<>>
    /\ payload' = <<>>
    /\ rbuf' = _read_buffer
    /\ n' = 8
    /\ initial' = TRUE
    /\ UNCHANGED <<config, msgVars, valueVars, conn, _read_buffer, s, call, result, pre, sockOps, sent, stream>>

PeerSendNegotiate == PeerSends(NegotiatePool)

(***************************************************************************)
(* close() (lines 299-308) and _shutdown_transport (lines 291-293, 453-459)*)
(***************************************************************************)
\* _shutdown_transport: the socket calls it makes and whether it raises.
\* The TLS transport unwraps and swallows the OSError of a failed unwrap.
ShutdownTransportRaises(k, unwrapOk) ==
    IF k = "SSL"
    THEN [ ops |-> <<Op("unwrap", unwrapOk)>>, raised |-> ~unwrapOk ]
    ELSE [ ops |-> <<>>, raised |-> FALSE ]

ShutdownTransport(k, unwrapOk) ==
    IF k = "SSL"
    THEN [ ops |-> <<Op("unwrap", unwrapOk)>>, raised |-> FALSE ]
    ELSE [ ops |-> <<>>, raised |-> FALSE ]

\* close() without the test of line 300: shutdown is called on None
CloseRunUnguarded(k, sk, c, unwrapOk, shutdownOk, closeOk) ==
    [ sock |-> IF shutdownOk /\ closeOk THEN None ELSE sk,
      connected |-> IF shutdownOk /\ closeOk THEN FALSE ELSE c,
      ops |-> <<Op("shutdown", shutdownOk)>>,
      closed |-> IF shutdownOk /\ closeOk /\ sk # None THEN {sk} ELSE {},
      raised |-> ~(shutdownOk /\ closeOk) ]

\* close() without line 308: connected is left as it was
CloseRunKeepsConnected(k, sk, c, unwrapOk, shutdownOk, closeOk) ==
    IF sk = None
    THEN [ sock |-> sk, connected |-> c, ops |-> <<>>, closed |-> {}, raised |-> FALSE ]
    ELSE IF ~shutdownOk \/ ~closeOk
    THEN [ sock |-> sk, connected |-> c,
           ops |-> ShutdownTransport(k, unwrapOk).ops \o <<Op("shutdown", shutdownOk)>>,
           closed |-> {}, raised |-> TRUE ]
    ELSE [ sock |-> None, connected |-> c,
           ops |-> ShutdownTransport(k, unwrapOk).ops
                   \o <<Op("shutdown", TRUE), Op("close", TRUE)>>,
           closed |-> {sk}, raised |-> FALSE ]

\* close(): the state it leaves, given how each socket call ends
CloseRun(k, sk, c, unwrapOk, shutdownOk, closeOk) ==
    IF sk = None
    THEN [ sock |-> sk, connected |-> FALSE, ops |-> <<>>, closed |-> {}, raised |-> FALSE ]
    ELSE LET st == ShutdownTransport(k, unwrapOk) IN
         IF st.raised
         THEN [ sock |-> sk, connected |-> c, ops |-> st.ops, closed |-> {}, raised |-> TRUE ]
         ELSE IF ~shutdownOk
         THEN [ sock |-> sk, connected |-> c, ops |-> st.ops \o <<Op("shutdown", FALSE)>>,
                closed |-> {}, raised |-> TRUE ]
         ELSE IF ~closeOk
         THEN [ sock |-> sk, connected |-> c,
                ops |-> st.ops \o <<Op("shutdown", TRUE), Op("close", FALSE)>>,
                closed |-> {}, raised |-> TRUE ]
         ELSE [ sock |-> None, connected |-> FALSE,
                ops |-> st.ops \o <<Op("shutdown", TRUE), Op("close", TRUE)>>,
                closed |-> {sk}, raised |-> FALSE ]

Close ==
    /\ pc = "idle"
    /\ \E unwrapOk, shutdownOk, closeOk \in BOOLEAN :
        LET r == CloseRun(kind, sock, connected, unwrapOk, shutdownOk, closeOk) IN
        /\ sock' = r.sock
        /\ connected' = r.connected
        /\ openSocks' = openSocks \ r.closed
        /\ sockOps' = r.ops
        /\ result' = Outcome(IF r.raised THEN "ioerror" ELSE "ok", NoErrno)
        /\ wire' = IF r.sock = None THEN <<>> ELSE wire
    /\ call' = "close"
    /\ pre' = Snapshot
    /\ s' = <<>>
    /\ sent' = <<>>
    /\ CallStarts
    /\ UNCHANGED <<config, msgVars, valueVars, _read_buffer, pc, readLocals, framesSent, clean>>

(***************************************************************************)
(* connect() (lines 136-154), _connect (183-236), _init_socket (238-253),  *)
(* _setup_transport (386-390, 520-525)                                     *)
(***************************************************************************)
\* what getaddrinfo answers for one family: gaierror, or a non-empty list of
\* addresses, each with whether sock.connect to it succeeds
AddrInfos ==
    {[ gai |-> TRUE, entries |-> <<>> ]} \cup
    {[ gai |-> FALSE, entries |-> e ] :
        e \in UNION {[1..len -> BOOLEAN] : len \in 1..MaxAddrs}}

\* index of the first address that connects, 0 if none does
FirstOk(entries) ==
    IF \E i \in 1..Len(entries) : entries[i]
    THEN CHOOSE i \in 1..Len(entries) :
            entries[i] /\ \A j \in 1..(i - 1) : ~entries[j]
    ELSE 0

\* the addresses of one family that the inner loop (lines 216-236) tries
Attempts(family, info) ==
    IF info.gai THEN <<>>
    ELSE [i \in 1..(IF FirstOk(info.entries) > 0 THEN FirstOk(info.entries)
                    ELSE Len(info.entries)) |-> <<family, i>>]

\* the calls of one pass of the outer loop (lines 197-236): getaddrinfo,
\* then a sock.connect for every address tried
FamilyOps(family, info) ==
    IF info.gai
    THEN <<ConnOp("getaddrinfo", FALSE, family, 0)>>
    ELSE <<ConnOp("getaddrinfo", TRUE, family, Len(info.entries))>> \o
         [i \in 1..Len(Attempts(family, info)) |->
             ConnOp("connect", info.entries[i], family, i)]

\* _connect with the address families the other way round
ConnectAddressesV6First(v4, v6) ==
    IF ~v6.gai /\ FirstOk(v6.entries) > 0
    THEN [ ok |-> TRUE, tried |-> Attempts("AF_INET6", v6),
           ops |-> FamilyOps("AF_INET6", v6) ]
    ELSE [ ok |-> ~v4.gai /\ FirstOk(v4.entries) > 0,
           tried |-> Attempts("AF_INET6", v6) \o Attempts("AF_INET", v4),
           ops |-> FamilyOps("AF_INET6", v6) \o FamilyOps("AF_INET", v4) ]

\* _connect: AF_INET first, AF_INET6 only when no AF_INET address connected
ConnectAddresses(v4, v6) ==
    IF ~v4.gai /\ FirstOk(v4.entries) > 0
    THEN [ ok |-> TRUE, tried |-> Attempts("AF_INET", v4),
           ops |-> FamilyOps("AF_INET", v4) ]
    ELSE [ ok |-> ~v6.gai /\ FirstOk(v6.entries) > 0,
           tried |-> Attempts("AF_INET", v4) \o Attempts("AF_INET6", v6),
           ops |-> FamilyOps("AF_INET", v4) \o FamilyOps("AF_INET6", v6) ]

\* _setup_transport: the TLS transport wraps the socket and does the TLS
\* handshake (lines 386-390), the plain transport makes no socket call
SetupOps(k) ==
    IF k = "SSL"
    THEN <<ConnOp("wrap_socket", TRUE, "", 0), ConnOp("do_handshake", TRUE, "", 0)>>
    ELSE <<>>

\* TCPTransport._setup_transport empties the read buffer (line 524),
\* SSLTransport._setup_transport does not touch it
SetupBuffer(k, buf) == IF k = "TCP" THEN EMPTY_BUFFER ELSE buf

\* a connect() whose handler of line 149 re-raises without closing the socket
ConnectRunKeepsSocket(k, sk, c, buf, new, v4, v6, initOk) ==
    IF c
    THEN [ sock |-> sk, connected |-> c, buffer |-> buf, opened |-> {}, closed |-> {},
           raised |-> FALSE, tried |-> <<>>, ops |-> <<>> ]
    ELSE LET a == ConnectAddresses(v4, v6) IN
         IF ~a.ok
         THEN [ sock |-> None, connected |-> FALSE, buffer |-> buf, opened |-> {},
                closed |-> {}, raised |-> TRUE, tried |-> a.tried, ops |-> a.ops ]
         ELSE IF ~initOk
         THEN [ sock |-> new, connected |-> FALSE, buffer |-> buf, opened |-> {new},
                closed |-> {}, raised |-> TRUE, tried |-> a.tried, ops |-> a.ops ]
         ELSE [ sock |-> new, connected |-> TRUE, buffer |-> SetupBuffer(k, buf),
                opened |-> {new}, closed |-> {}, raised |-> FALSE, tried |-> a.tried,
                ops |-> a.ops \o SetupOps(k) ]

\* connect(): the state it leaves.  new is the socket socket.socket() returns
\* for the address that connects; initOk is whether _init_socket (socket
\* options, TLS wrap and handshake) goes through without OSError/SSLError.
ConnectRun(k, sk, c, buf, new, v4, v6, initOk) ==
    IF c
    THEN [ sock |-> sk, connected |-> c, buffer |-> buf, opened |-> {}, closed |-> {},
           raised |-> FALSE, tried |-> <<>>, ops |-> <<>> ]
    ELSE LET a == ConnectAddresses(v4, v6) IN
         IF ~a.ok
         THEN \* line 229-230 left self.sock None if an address was tried; if
              \* none was, lines 151-153 close the socket self.sock still names
              [ sock |-> None, connected |-> FALSE, buffer |-> buf, opened |-> {},
                closed |-> IF a.tried = <<>> /\ sk # None THEN {sk} ELSE {},
                raised |-> TRUE, tried |-> a.tried, ops |-> a.ops ]
         ELSE IF ~initOk
         THEN [ sock |-> None, connected |-> FALSE, buffer |-> buf, opened |-> {new},
                closed |-> {new}, raised |-> TRUE, tried |-> a.tried, ops |-> a.ops ]
         ELSE [ sock |-> new, connected |-> TRUE, buffer |-> SetupBuffer(k, buf),
                opened |-> {new}, closed |-> {}, raised |-> FALSE, tried |-> a.tried,
                ops |-> a.ops \o SetupOps(k) ]

\* the socket socket.socket() returns: a descriptor that is not open
NewSock == CHOOSE i \in 1..(MaxSock + 1) : i \notin openSocks /\ \A j \in 1..(i - 1) : j \in openSocks

Connect ==
    /\ pc = "idle"
    /\ connected \/ NewSock <= MaxSock
    /\ \E v4, v6 \in AddrInfos, initOk \in BOOLEAN :
        LET r == ConnectRun(kind, sock, connected, _read_buffer, NewSock, v4, v6, initOk) IN
        /\ sock' = r.sock
        /\ connected' = r.connected
        /\ _read_buffer' = r.buffer
        /\ openSocks' = (openSocks \cup r.opened) \ r.closed
        /\ result' = Outcome(IF r.raised THEN "ioerror" ELSE "ok", NoErrno)
        /\ sockOps' = r.ops
        /\ IF connected
           THEN CallStarts /\ UNCHANGED <<wire, framesSent, clean>>
           ELSE /\ wire' = <<>>
                /\ framesSent' = framesSent
                /\ wireLog' = <<>>
                /\ rcvd' = <<>>
                /\ unreturned' = r.buffer
                /\ clean' = (r.buffer = EMPTY_BUFFER)
    /\ call' = "connect"
    /\ pre' = Snapshot
    /\ s' = <<>>
    /\ sent' = <<>>
    /\ UNCHANGED <<config, msgVars, valueVars, pc, readLocals>>

(***************************************************************************)
(* uamqp/message.py: Message, BatchMessage and the body views DataBody,    *)
(* SequenceBody, ValueBody.  The underlying message (c_uamqp) is a record  *)
(* of its body sections.                                                   *)
(***************************************************************************)
\* Python's truth value (lines 32, 35, 39)
Truthy(x) == x.t # "NoneType" /\ x.v # <<>> /\ x.v # <<0>>

\* str.encode('utf-8') for characters below 2048
Utf8Char(c) == IF c < 128 THEN <<c>> ELSE <<192 + (c \div 64), 128 + (c % 64)>>
RECURSIVE Utf8(_)
Utf8(str) == IF str = <<>> THEN <<>> ELSE Utf8Char(Head(str)) \o Utf8(Tail(str))

\* c_uamqp.create_message()
create_message == MessageStore("default", <<>>, <<>>, <<>>)

\* cMessage.body_type
body_type(m) ==
    IF m.data # <<>> THEN "DataType"
    ELSE IF m.sequence # <<>> THEN "SequenceType"
    ELSE IF m.value # <<>> THEN "ValueType"
    ELSE "NoneType"

\* the outcome of an operation on the underlying message
Kept(m) == [ m |-> m, raised |-> FALSE ]
Refused(m) == [ m |-> m, raised |-> TRUE ]

\* an underlying message that takes a data section next to any other
add_body_data_unchecked(m, b) == Kept([m EXCEPT !.data = Append(@, b)])

\* cMessage.add_body_data, add_body_sequence, set_body_value: a message whose
\* body has another shape refuses the section
add_body_data(m, b) ==
    IF body_type(m) \in {"NoneType", "DataType"}
    THEN Kept([m EXCEPT !.data = Append(@, b)])
    ELSE Refused(m)

add_body_sequence(m, v) ==
    IF body_type(m) \in {"NoneType", "SequenceType"}
    THEN Kept([m EXCEPT !.sequence = Append(@, v)])
    ELSE Refused(m)

set_body_value(m, v) ==
    IF body_type(m) \in {"NoneType", "ValueType"}
    THEN Kept([m EXCEPT !.value = <<v>>])
    ELSE Refused(m)

\* c_uamqp.create_data(data) and enocde_batch_value: the bytes of the
\* envelope (a described binary) that wraps one payload
Envelope(b) == <<0, 83, 117, 160, Len(b)>> \o b

\* DataBody.append (lines 446-450): a value that is neither str nor bytes is
\* dropped
DataBodyAppend(m, other) ==
    IF other.t = "str" THEN add_body_data(m, Utf8(other.v))
    ELSE IF other.t = "bytes" THEN add_body_data(m, other.v)
    ELSE Kept(m)

\* SequenceBody.append (lines 469-471), ValueBody.set (lines 481-483)
SequenceBodyAppend(m, value) == add_body_sequence(m, value)
ValueBodySet(m, value) == set_body_value(m, value)

\* for value in body: self._body.append(value) (lines 37-38)
RECURSIVE AppendAll(_, _)
AppendAll(m, values) ==
    IF values = <<>> THEN Kept(m)
    ELSE LET r == SequenceBodyAppend(m, PyValue("int", <<Head(values)>>)) IN
         IF r.raised THEN r ELSE AppendAll(r.m, Tail(values))

\* the body view Message.__init__ makes for an existing message (lines 43-51)
ViewOf(m) ==
    IF body_type(m) = "NoneType" THEN "None"
    ELSE IF body_type(m) = "DataType" THEN "DataBody"
    ELSE IF body_type(m) = "SequenceType" THEN "SequenceBody"
    ELSE "ValueBody"

Built(m, view, raised) == [ m |-> m, body |-> view, raised |-> raised ]

\* Message.__init__(body, message=message), lines 29-51
MessageInit(body, message) ==
    LET m == IF message.exists THEN message ELSE create_message IN
    IF Truthy(body) /\ body.t \in {"str", "bytes"}
    THEN LET r == DataBodyAppend(m, body) IN Built(r.m, "DataBody", r.raised)
    ELSE IF Truthy(body) /\ body.t = "list"
    THEN LET r == AppendAll(m, body.v) IN Built(r.m, "SequenceBody", r.raised)
    ELSE IF Truthy(body)
    THEN LET r == ValueBodySet(m, body) IN Built(r.m, "ValueBody", r.raised)
    ELSE IF message.exists
    THEN Built(m, ViewOf(m), FALSE)
    ELSE Built(m, "None", FALSE)

\* BatchMessage.__init__(data, message=message), lines 180-188
BatchInit(message) ==
    IF message.exists /\ message.fmt # "batch"
    THEN Built(message, "None", TRUE)
    ELSE LET m == IF message.exists THEN message
                  ELSE [create_message EXCEPT !.fmt = "batch"]
         IN  Built(MessageInit(PyNone, m).m, "DataBody", FALSE)

\* a batch encoder that leaves out the empty payloads
RECURSIVE BatchAppendSkipsEmpty(_, _)
BatchAppendSkipsEmpty(m, payloads) ==
    IF payloads = <<>> THEN Kept(m)
    ELSE IF Head(payloads).v = <<>> THEN BatchAppendSkipsEmpty(m, Tail(payloads))
    ELSE LET data == Head(payloads)
             bytes == IF data.t = "str" THEN Utf8(data.v) ELSE data.v
             r == DataBodyAppend(m, PyValue("bytes", Envelope(bytes)))
         IN  IF r.raised THEN r ELSE BatchAppendSkipsEmpty(r.m, Tail(payloads))

\* BatchMessage.get_message (lines 197-208) over the payloads the sequence
\* yields: encode a str, wrap the payload, append the bytes to the body
RECURSIVE BatchAppend(_, _)
BatchAppend(m, payloads) ==
    IF payloads = <<>> THEN Kept(m)
    ELSE LET data == Head(payloads)
             bytes == IF data.t = "str" THEN Utf8(data.v) ELSE data.v
             r == DataBodyAppend(m, PyValue("bytes", Envelope(bytes)))
         IN  IF r.raised THEN r ELSE BatchAppend(r.m, Tail(payloads))

\* what is handed in
BodyArgs ==
    { PyNone, PyValue("str", <<>>), PyValue("str", <<65, 233>>), PyValue("bytes", <<1>>),
      PyValue("list", <<>>), PyValue("list", <<5, 6>>), PyValue("int", <<0>>),
      PyValue("int", <<7>>) }

\* what a body operation is handed
OperationArgs == { PyValue("str", <<65, 233>>), PyValue("bytes", <<1>>), PyValue("int", <<7>>) }

ExistingMessages ==
    { MessageStore(f, d, q, v) :
        f \in {"default", "batch"},
        d \in {<<>>}, q \in {<<>>}, v \in {<<>>} } \cup
    { MessageStore(f, <<<<9>>>>, <<>>, <<>>) : f \in {"default", "batch"} } \cup
    { MessageStore(f, <<>>, <<PyValue("int", <<4>>)>>, <<>>) : f \in {"default", "batch"} } \cup
    { MessageStore(f, <<>>, <<>>, <<PyValue("int", <<3>>)>>) : f \in {"default", "batch"} }

PayloadPool == { PyValue("bytes", <<1>>), PyValue("bytes", <<>>), PyValue("str", <<233>>) }
PayloadSeqs == UNION { [1..len -> PayloadPool] : len \in 0..MaxBatch }

Sections(m) == Len(m.data) + Len(m.sequence) + Len(m.value)

\* Message(body=body, message=message)
NewMessage ==
    /\ msgClass = "none"
    /\ \E body \in BodyArgs, message \in {NoMessage} \cup ExistingMessages :
        LET r == MessageInit(body, message) IN
        /\ msgClass' = IF r.raised THEN "none" ELSE "Message"
        /\ _message' = r.m
        /\ _body' = IF r.raised THEN "None" ELSE r.body
        /\ mlog' = MessageLog("Message", r.raised, message, <<body>>)
    /\ _body_gen' = NoPayloads
    /\ state' = "WaitingToBeSent"
    /\ UNCHANGED <<application_properties, message_annotations, handedOver, transportVars, valueVars>>

\* BatchMessage(data=data, message=message)
NewBatchMessage ==
    /\ msgClass = "none"
    /\ \E data \in PayloadSeqs, k \in {"generator", "list"},
          message \in {NoMessage} \cup ExistingMessages :
        LET r == BatchInit(message) IN
        /\ msgClass' = IF r.raised THEN "none" ELSE "BatchMessage"
        /\ _message' = r.m
        /\ _body' = IF r.raised THEN "None" ELSE r.body
        /\ _body_gen' = IF r.raised THEN NoPayloads ELSE Payloads(k, data)
        /\ mlog' = MessageLog("BatchMessage", r.raised, message, data)
    /\ state' = "WaitingToBeSent"
    /\ UNCHANGED <<application_properties, message_annotations, handedOver, transportVars, valueVars>>

\* BatchMessage.get_message()
BatchGetMessage ==
    /\ msgClass = "BatchMessage"
    /\ Sections(_message) + Len(_body_gen.items) <= MaxBody
    /\ LET r == BatchAppend(_message, _body_gen.items) IN
        /\ _message' = r.m
        /\ mlog' = MessageLog("get_message", r.raised, _message, _body_gen.items)
        /\ handedOver' = (handedOver \/ ~r.raised)
    /\ _body_gen' = IF _body_gen.kind = "generator"
                    THEN Payloads("generator", <<>>) ELSE _body_gen
    /\ UNCHANGED <<msgClass, _body, state, application_properties, message_annotations,
                   transportVars, valueVars>>

\* an operation on the body view: self._body.append(x) or self._body.set(x);
\* a view without the method raises AttributeError
BodyAppend ==
    /\ msgClass # "none"
    /\ Sections(_message) < MaxBody
    /\ \E x \in OperationArgs :
        LET r == IF _body = "DataBody" THEN DataBodyAppend(_message, x)
                 ELSE IF _body = "SequenceBody" THEN SequenceBodyAppend(_message, x)
                 ELSE Refused(_message)
        IN  /\ _message' = r.m
            /\ mlog' = MessageLog("append", r.raised, _message, <<x>>)
    /\ UNCHANGED <<msgClass, _body, _body_gen, sectionVars, transportVars, valueVars>>

BodySet ==
    /\ msgClass # "none"
    /\ \E x \in OperationArgs :
        LET r == IF _body = "ValueBody" THEN ValueBodySet(_message, x)
                 ELSE Refused(_message)
        IN  /\ _message' = r.m
            /\ mlog' = MessageLog("set", r.raised, _message, <<x>>)
    /\ UNCHANGED <<msgClass, _body, _body_gen, sectionVars, transportVars, valueVars>>

\* dict.update(value) and dict(value) of the setters (lines 111-114, 133-136)
Update(map, value) ==
    [ key \in DOMAIN map \cup DOMAIN value |->
        IF key \in DOMAIN value THEN value[key] ELSE map[key] ]

\* what a setter is handed: a dict, or a value that is not one
SetterArgs ==
    { PyValue("dict", [key \in {"a"} |-> 1]), PyValue("dict", [key \in {"a"} |-> 2]),
      PyValue("int", <<7>>) }

\* the setters of application_properties (lines 105-118) and
\* message_annotations (lines 129-142): merge the value into the dict the
\* section holds, or start from the value, and store the result
SetSection(section, value) ==
    IF value.t # "dict" THEN [ section |-> section, raised |-> TRUE ]
    ELSE IF section.isset /\ section.map # <<>>
    THEN [ section |-> Dict(Update(section.map, value.v)), raised |-> FALSE ]
    ELSE [ section |-> Dict(value.v), raised |-> FALSE ]

\* message.application_properties = value
SetApplicationProperties ==
    /\ msgClass # "none"
    /\ \E value \in SetterArgs :
        LET r == SetSection(application_properties, value) IN
        /\ application_properties' = r.section
        /\ mlog' = MessageLog("application_properties", r.raised, _message, <<value>>)
    /\ UNCHANGED <<msgClass, _message, _body, _body_gen, state, message_annotations,
                   handedOver, transportVars, valueVars>>

\* message.message_annotations = value
SetMessageAnnotations ==
    /\ msgClass # "none"
    /\ \E value \in SetterArgs :
        LET r == SetSection(message_annotations, value) IN
        /\ message_annotations' = r.section
        /\ mlog' = MessageLog("message_annotations", r.raised, _message, <<value>>)
    /\ UNCHANGED <<msgClass, _message, _body, _body_gen, state, application_properties,
                   handedOver, transportVars, valueVars>>

\* Message.get_message() (lines 168-172): len(self._body) raises TypeError when
\* the body view is None or a ValueBody, which has no __len__
HasLen(view) == view \in {"DataBody", "SequenceBody"}

GetMessage ==
    /\ msgClass = "Message"
    /\ mlog' = MessageLog("get_message", ~HasLen(_body), _message, <<>>)
    /\ handedOver' = (handedOver \/ HasLen(_body))
    /\ UNCHANGED <<msgClass, _message, _body, _body_gen, state, application_properties,
                   message_annotations, transportVars, valueVars>>

\* _on_message_sent (lines 156-161, 190-195), called by the sender the message
\* was handed to
OnMessageSent ==
    /\ msgClass # "none"
    /\ handedOver
    /\ state = "WaitingToBeSent"
    /\ state' = "Complete"
    /\ mlog' = MessageLog("_on_message_sent", FALSE, _message, <<>>)
    /\ UNCHANGED <<msgClass, _message, _body, _body_gen, application_properties,
                   message_annotations, handedOver, transportVars, valueVars>>

(***************************************************************************)
(* The codec of AMQP values: the AMQP 1.0 binary format, one constructor   *)
(* byte (the format code) and the payload of its size class.               *)
(***************************************************************************)
\* big-endian bytes of a number: unsigned, and signed in two's complement
RECURSIVE BE(_, _)
BE(num, width) ==
    IF width = 0 THEN <<>> ELSE BE(num \div 256, width - 1) \o <<num % 256>>

Complement(bytes) == [ i \in 1..Len(bytes) |-> 255 - bytes[i] ]

SignedBE(num, width) ==
    IF num >= 0 THEN BE(num, width) ELSE Complement(BE(0 - num - 1, width))

RECURSIVE UnBE(_)
UnBE(bytes) ==
    IF bytes = <<>> THEN 0
    ELSE UnBE(SubSeq(bytes, 1, Len(bytes) - 1)) * 256 + bytes[Len(bytes)]

UnSignedBE(bytes) ==
    IF bytes[1] >= 128 THEN 0 - UnBE(Complement(bytes)) - 1 ELSE UnBE(bytes)

RECURSIVE Concat(_)
Concat(seqs) == IF seqs = <<>> THEN <<>> ELSE Head(seqs) \o Concat(Tail(seqs))

\* a variable-width or compound value under its one-byte form when size and
\* count fit one byte, under its four-byte form otherwise
Sized(small, large, count, hasCount, body) ==
    LET width1 == Len(body) + (IF hasCount THEN 1 ELSE 0)
        width4 == Len(body) + (IF hasCount THEN 4 ELSE 0)
    IN  IF width1 <= 255 /\ count <= 255
        THEN <<small, width1>> \o (IF hasCount THEN <<count>> ELSE <<>>) \o body
        ELSE <<large>> \o BE(width4, 4) \o (IF hasCount THEN BE(count, 4) ELSE <<>>) \o body

\* a number under the one-byte code whatever its size
SmallAlways(zero, small, wide, width, num) == <<small, num % 256>>

\* a number under the smallest code that holds it: the zero code (when there
\* is one), the one-byte code, the wide code
Smallest(zero, small, wide, width, num) ==
    IF num = 0 /\ zero # 0 THEN <<zero>>
    ELSE IF zero # 0 /\ num <= 255 THEN <<small, num>>
    ELSE IF zero = 0 /\ num >= 0 - 128 /\ num <= 127 THEN <<small>> \o SignedBE(num, 1)
    ELSE IF zero # 0 THEN <<wide>> \o BE(num, width)
    ELSE <<wide>> \o SignedBE(num, width)

\* the encoding under the widest code of the type: the constructor an array
\* states once, and the payload of each element
RECURSIVE Encode(_)
RECURSIVE Wide(_)
Wide(val) ==
    CASE val.tag = "Null" -> <<64>>
      [] val.tag = "Bool" -> <<86, val.num>>
      [] val.tag = "UByte" -> <<80, val.num>>
      [] val.tag = "UShort" -> <<96>> \o BE(val.num, 2)
      [] val.tag = "UInt" -> <<112>> \o BE(val.num, 4)
      [] val.tag = "ULong" -> <<128>> \o BE(val.num, 8)
      [] val.tag = "Byte" -> <<81>> \o SignedBE(val.num, 1)
      [] val.tag = "Short" -> <<97>> \o SignedBE(val.num, 2)
      [] val.tag = "Int" -> <<113>> \o SignedBE(val.num, 4)
      [] val.tag = "Long" -> <<129>> \o SignedBE(val.num, 8)
      [] val.tag = "Float" -> <<114>> \o val.bytes
      [] val.tag = "Double" -> <<130>> \o val.bytes
      [] val.tag = "Char" -> <<115>> \o BE(val.num, 4)
      [] val.tag = "Timestamp" -> <<131>> \o SignedBE(val.num, 8)
      [] val.tag = "Uuid" -> <<152>> \o val.bytes
      [] val.tag = "Binary" -> <<176>> \o BE(Len(val.bytes), 4) \o val.bytes
      [] val.tag = "String" -> <<177>> \o BE(Len(val.bytes), 4) \o val.bytes
      [] val.tag = "Symbol" -> <<179>> \o BE(Len(val.bytes), 4) \o val.bytes
      [] OTHER -> Encode(val)

\* encode(v)
Encode(val) ==
    CASE val.tag = "Bool" -> IF val.num = 1 THEN <<65>> ELSE <<66>>
      [] val.tag = "UInt" -> Smallest(67, 82, 112, 4, val.num)
      [] val.tag = "ULong" -> Smallest(68, 83, 128, 8, val.num)
      [] val.tag = "Int" -> Smallest(0, 84, 113, 4, val.num)
      [] val.tag = "Long" -> Smallest(0, 85, 129, 8, val.num)
      [] val.tag = "Binary" -> Sized(160, 176, 0, FALSE, val.bytes)
      [] val.tag = "String" -> Sized(161, 177, 0, FALSE, val.bytes)
      [] val.tag = "Symbol" -> Sized(163, 179, 0, FALSE, val.bytes)
      [] val.tag = "List" ->
            IF val.items = <<>> THEN <<69>>
            ELSE Sized(192, 208, Len(val.items), TRUE,
                       Concat([ i \in 1..Len(val.items) |-> Encode(val.items[i]) ]))
      [] val.tag = "Map" ->
            Sized(193, 209, Len(val.items), TRUE,
                  Concat([ i \in 1..Len(val.items) |-> Encode(val.items[i]) ]))
      [] val.tag = "Array" ->
            Sized(224, 240, Len(val.items), TRUE,
                  (IF val.items = <<>> THEN <<64>> ELSE <<Head(Wide(val.items[1]))>>)
                  \o Concat([ i \in 1..Len(val.items) |-> Tail(Wide(val.items[i])) ]))
      [] val.tag = "Described" -> <<0>> \o Encode(val.items[1]) \o Encode(val.items[2])
      [] OTHER -> Wide(val)

\* what the decoder gives: a value and the bytes after it, or an error
Decoded(val, rest) == [ error |-> "None", value |-> val, rest |-> rest ]
Failed(error) == [ error |-> error, value |-> NoValue, rest |-> <<>> ]

\* the number of payload bytes of a fixed-width format code
FixedWidth(code) ==
    CASE code \in {64, 65, 66, 67, 68, 69} -> 0
      [] code \in {80, 81, 82, 83, 84, 85, 86} -> 1
      [] code \in {96, 97} -> 2
      [] code \in {112, 113, 114, 115} -> 4
      [] code \in {128, 129, 130, 131} -> 8
      [] code = 152 -> 16
      [] OTHER -> 0 - 1

\* the value of a fixed-width format code over its payload bytes
FixedValue(code, bytes) ==
    CASE code = 64 -> Scalar("Null", 0)
      [] code = 65 -> Scalar("Bool", 1)
      [] code = 66 -> Scalar("Bool", 0)
      [] code = 86 -> Scalar("Bool", IF bytes[1] = 0 THEN 0 ELSE 1)
      [] code = 67 -> Scalar("UInt", 0)
      [] code = 68 -> Scalar("ULong", 0)
      [] code = 69 -> Composite("List", <<>>)
      [] code = 80 -> Scalar("UByte", UnBE(bytes))
      [] code = 96 -> Scalar("UShort", UnBE(bytes))
      [] code \in {82, 112} -> Scalar("UInt", UnBE(bytes))
      [] code \in {83, 128} -> Scalar("ULong", UnBE(bytes))
      [] code = 81 -> Scalar("Byte", UnSignedBE(bytes))
      [] code = 97 -> Scalar("Short", UnSignedBE(bytes))
      [] code \in {84, 113} -> Scalar("Int", UnSignedBE(bytes))
      [] code \in {85, 129} -> Scalar("Long", UnSignedBE(bytes))
      [] code = 114 -> Bytes("Float", bytes)
      [] code = 130 -> Bytes("Double", bytes)
      [] code = 115 -> Scalar("Char", UnBE(bytes))
      [] code = 131 -> Scalar("Timestamp", UnSignedBE(bytes))
      [] OTHER -> Bytes("Uuid", bytes)

VariableTag(code) ==
    CASE code \in {160, 176} -> "Binary"
      [] code \in {161, 177} -> "String"
      [] OTHER -> "Symbol"

\* UTF-8 validation of the text of a String, for code points below 2048
RECURSIVE ValidUtf8(_)
ValidUtf8(bytes) ==
    IF bytes = <<>> THEN TRUE
    ELSE IF bytes[1] < 128 THEN ValidUtf8(Tail(bytes))
    ELSE IF bytes[1] >= 194 /\ bytes[1] < 224 /\ Len(bytes) >= 2
            /\ bytes[2] >= 128 /\ bytes[2] < 192
    THEN ValidUtf8(SubSeq(bytes, 3, Len(bytes)))
    ELSE FALSE

\* the payload of one value under a constructor already read; the elements of
\* a list or map, each with its own constructor; the elements of an array,
\* all under the constructor the array states once
RECURSIVE Decode(_)
RECURSIVE DecodePayload(_, _)
RECURSIVE DecodeElements(_, _)
RECURSIVE DecodeArray(_, _, _)
DecodeElements(bytes, count) ==
    IF count = 0 THEN Decoded(<<>>, bytes)
    ELSE LET first == Decode(bytes) IN
         IF first.error # "None" THEN first
         ELSE LET others == DecodeElements(first.rest, count - 1) IN
              IF others.error # "None" THEN others
              ELSE Decoded(<<first.value>> \o others.value, others.rest)

DecodeArray(code, bytes, count) ==
    IF count = 0 THEN Decoded(<<>>, bytes)
    ELSE LET first == DecodePayload(code, bytes) IN
         IF first.error # "None" THEN first
         ELSE LET others == DecodeArray(code, first.rest, count - 1) IN
              IF others.error # "None" THEN others
              ELSE Decoded(<<first.value>> \o others.value, others.rest)

DecodePayload(code, bytes) ==
    IF FixedWidth(code) >= 0
    THEN IF Len(bytes) < FixedWidth(code) THEN Failed("MalformedFrame")
         ELSE Decoded(FixedValue(code, SubSeq(bytes, 1, FixedWidth(code))),
                      SubSeq(bytes, FixedWidth(code) + 1, Len(bytes)))
    ELSE IF code \in {160, 161, 163, 176, 177, 179, 192, 193, 208, 209, 224, 240}
    THEN LET width == IF code < 176 \/ code \in {192, 193, 224} THEN 1 ELSE 4
             compound == code >= 192
         IN  IF Len(bytes) < width THEN Failed("MalformedFrame")
             ELSE LET size == UnBE(SubSeq(bytes, 1, width))
                      body == SubSeq(bytes, width + 1, width + size)
                      rest == SubSeq(bytes, width + size + 1, Len(bytes))
                  IN  IF Len(bytes) < width + size THEN Failed("MalformedFrame")
                      ELSE IF ~compound
                      THEN IF VariableTag(code) = "String" /\ ~ValidUtf8(body)
                           THEN Failed("MalformedFrame")
                           ELSE Decoded(Bytes(VariableTag(code), body), rest)
                      ELSE IF size < width THEN Failed("MalformedFrame")
                      ELSE LET count == UnBE(SubSeq(body, 1, width))
                               items == SubSeq(body, width + 1, Len(body))
                           IN  IF code \in {192, 208}
                               THEN LET got == DecodeElements(items, count) IN
                                    IF got.error # "None" THEN got
                                    ELSE Decoded(Composite("List", got.value), rest)
                               ELSE IF code \in {193, 209}
                               THEN IF count % 2 = 1 THEN Failed("MalformedFrame")
                                    ELSE LET got == DecodeElements(items, count) IN
                                         IF got.error # "None" THEN got
                                         ELSE Decoded(Composite("Map", got.value), rest)
                               ELSE IF items = <<>> THEN Failed("MalformedFrame")
                               ELSE LET got == DecodeArray(Head(items), Tail(items), count) IN
                                    IF got.error # "None" THEN got
                                    ELSE IF got.rest # <<>> THEN Failed("MalformedFrame")
                                    ELSE Decoded(Composite("Array", got.value), rest)
    ELSE Failed("UnknownFormatCode")

\* decode(bytes): a described constructor (0x00, descriptor, value) or a
\* format code and its payload
Decode(bytes) ==
    IF bytes = <<>> THEN Failed("MalformedFrame")
    ELSE IF Head(bytes) = 0
    THEN LET descriptor == Decode(Tail(bytes)) IN
         IF descriptor.error # "None" THEN descriptor
         ELSE LET described == Decode(descriptor.rest) IN
              IF described.error # "None" THEN described
              ELSE Decoded(Composite("Described", <<descriptor.value, described.value>>),
                           described.rest)
    ELSE DecodePayload(Head(bytes), Tail(bytes))

(***************************************************************************)
(* Constructing, encoding and decoding a value.                            *)
(***************************************************************************)
\* the range of the payload of a non-composite variant (the ranges of UInt,
\* ULong, Int, Long and Timestamp are wider than the integers of the model)
InRange(tag, num) ==
    CASE tag = "Bool" -> num \in {0, 1}
      [] tag = "UByte" -> num >= 0 /\ num <= 255
      [] tag = "UShort" -> num >= 0 /\ num <= 65535
      [] tag \in {"UInt", "ULong"} -> num >= 0
      [] tag = "Byte" -> num >= 0 - 128 /\ num <= 127
      [] tag = "Short" -> num >= 0 - 32768 /\ num <= 32767
      [] tag = "Char" -> num >= 0 /\ num <= 1114111 /\ ~(num >= 55296 /\ num <= 57343)
      [] OTHER -> TRUE

NumericTags ==
    {"Bool", "UByte", "UShort", "UInt", "ULong", "Byte", "Short", "Int", "Long", "Char",
     "Timestamp"}

\* the constructors: construction fails when the payload is out of range
Constructible(val) ==
    CASE val.tag \in NumericTags -> InRange(val.tag, val.num)
      [] val.tag = "Float" -> Len(val.bytes) = 4
      [] val.tag = "Double" -> Len(val.bytes) = 8
      [] val.tag = "Uuid" -> Len(val.bytes) = 16
      [] val.tag = "String" -> ValidUtf8(val.bytes)
      [] val.tag = "Array" -> \A i \in 1..Len(val.items) : val.items[i].tag = val.items[1].tag
      [] val.tag = "Map" -> Len(val.items) % 2 = 0
      [] val.tag = "Described" -> Len(val.items) = 2
      [] OTHER -> TRUE

Num(tag, nums) == { Scalar(tag, num) : num \in nums }

\* the values the constructors are asked for
PrimitiveArgs ==
    { Scalar("Null", 0) } \cup Num("Bool", {0, 1}) \cup Num("UByte", {0, 255, 256})
    \cup Num("UShort", {255, 65535, 65536}) \cup Num("UInt", {0, 5, 255, 256, 70000})
    \cup Num("ULong", {0, 5, 255, 256}) \cup Num("Byte", {0 - 128, 5, 127, 128})
    \cup Num("Short", {0 - 32768, 0 - 1, 255}) \cup Num("Int", {0 - 129, 0 - 128, 5, 42, 127, 128})
    \cup Num("Long", {0 - 129, 5, 255}) \cup Num("Char", {120, 55296})
    \cup Num("Timestamp", {0 - 1, 255})
    \cup { Bytes("Float", <<64, 160, 0, 0>>), Bytes("Double", <<64, 20, 0, 0, 0, 0, 0, 0>>),
           Bytes("Uuid", <<55, 249, 219, 0, 251, 183, 17, 231, 133, 238, 236, 177, 215, 85, 131, 154>>),
           Bytes("Binary", <<>>), Bytes("Binary", <<50>>), Bytes("Binary", Fill(256, 50)),
           Bytes("String", <<>>), Bytes("String", <<120>>), Bytes("String", <<195, 169>>),
           Bytes("String", <<255>>), Bytes("Symbol", <<120>>) }

True == Scalar("Bool", 1)
Null == Scalar("Null", 0)
Int42 == Scalar("Int", 42)
One == Bytes("String", <<79, 110, 101>>)
Two == Bytes("String", <<84, 119, 111>>)

CompositeArgs ==
    { Composite("List", <<>>), Composite("List", <<True, Scalar("UByte", 125)>>),
      Composite("List", <<Null, Composite("List", <<Int42, Composite("List", <<>>)>>)>>),
      Composite("List", <<Bytes("Binary", Fill(256, 50))>>),
      Composite("Map", <<>>),
      Composite("Map", <<One, Scalar("Int", 1), Two, Scalar("Int", 2)>>),
      Composite("Map", <<Bytes("Symbol", <<120>>), Composite("List", <<Null>>)>>),
      Composite("Array", <<>>),
      Composite("Array", <<Scalar("UByte", 122), Scalar("UByte", 125)>>),
      Composite("Array", <<Scalar("UInt", 0), Scalar("UInt", 255), Scalar("UInt", 256)>>),
      Composite("Array", <<True, Scalar("Bool", 0)>>),
      Composite("Array", <<One, Bytes("String", <<>>)>>),
      Composite("Array", <<Null, Null>>),
      Composite("Array", <<Int42, Scalar("Long", 42)>>),
      Composite("Described", <<Scalar("ULong", 117), Bytes("Binary", <<50>>)>>),
      Composite("Described", <<Bytes("Symbol", <<120>>),
                               Composite("List", <<Composite("Described", <<Int42, Null>>)>>)>>) }

ConstructorArgs == PrimitiveArgs \cup CompositeArgs

\* c_uamqp.<type>_value(...)
NewValue ==
    /\ amqpvalue = NoValue
    /\ \E val \in ConstructorArgs :
        IF Constructible(val)
        THEN /\ amqpvalue' = val
             /\ vlog' = ValueLog("new", 0, NoValue, NoValue, "None", <<>>)
        ELSE /\ amqpvalue' = NoValue
             /\ vlog' = ValueLog("new", 0, NoValue, val, "ValueError", <<>>)
    /\ encoded' = <<>>
    /\ UNCHANGED <<transportVars, msgVars>>

\* encode(v)
EncodeValue ==
    /\ amqpvalue # NoValue
    /\ encoded' = Encode(amqpvalue)
    /\ vlog' = ValueLog("encode", 0, NoValue, NoValue, "None", <<>>)
    /\ UNCHANGED <<amqpvalue, transportVars, msgVars>>

\* decode(bytes) of the bytes the encoder made; the history keeps, as the
\* position, how many bytes the decoder left
DecodeValue ==
    /\ encoded # <<>>
    /\ LET got == Decode(encoded) IN
        vlog' = ValueLog("decode", Len(got.rest), NoValue, NoValue, got.error, <<got.value>>)
    /\ UNCHANGED <<amqpvalue, encoded, transportVars, msgVars>>

(***************************************************************************)
(* List: resize, positional set and get (value.size = n, value[i] = v,     *)
(* value[i]).                                                              *)
(***************************************************************************)
\* what an operation on a value gives: the value after it, what it returns,
\* the error it fails with
Gave(val, returned, error) == [ value |-> val, returned |-> returned, error |-> error ]

\* resize(n): the first n positions, the new ones holding Null
list_resize(val, count) ==
    Gave(Composite("List", [ i \in 1..count |-> IF i <= Len(val.items) THEN val.items[i] ELSE Null ]),
         <<>>, "None")

\* a set that grows the list up to the position it is given
list_set_grows(val, index, item) ==
    Gave(Composite("List", [ i \in 1..Max(Len(val.items), index + 1) |->
                               IF i = index + 1 THEN item
                               ELSE IF i <= Len(val.items) THEN val.items[i] ELSE Null ]),
         <<>>, "None")

\* set(i, v): IndexOutOfRange when i >= size
list_set(val, index, item) ==
    IF index >= Len(val.items) THEN Gave(val, <<>>, "IndexError")
    ELSE Gave([val EXCEPT !.items[index + 1] = item], <<>>, "None")

\* get(i)
list_get(val, index) ==
    IF index >= Len(val.items) THEN Gave(val, <<>>, "IndexError")
    ELSE Gave(val, <<val.items[index + 1]>>, "None")

\* the values stored in a list or a map
Items == { True, Null, Int42, Scalar("UByte", 125) }

ListResize ==
    /\ amqpvalue.tag = "List"
    /\ \E count \in 0..MaxList :
        LET r == list_resize(amqpvalue, count) IN
        /\ amqpvalue' = r.value
        /\ vlog' = ValueLog("resize", count, NoValue, NoValue, r.error, r.returned)
    /\ encoded' = <<>>
    /\ UNCHANGED <<transportVars, msgVars>>

ListSet ==
    /\ amqpvalue.tag = "List"
    /\ \E index \in 0..MaxList, item \in Items :
        LET r == list_set(amqpvalue, index, item) IN
        /\ amqpvalue' = r.value
        /\ vlog' = ValueLog("set", index, NoValue, item, r.error, r.returned)
    /\ encoded' = <<>>
    /\ UNCHANGED <<transportVars, msgVars>>

ListGet ==
    /\ amqpvalue.tag = "List"
    /\ \E index \in 0..MaxList :
        LET r == list_get(amqpvalue, index) IN
        vlog' = ValueLog("get", index, NoValue, NoValue, r.error, r.returned)
    /\ UNCHANGED <<amqpvalue, encoded, transportVars, msgVars>>

(***************************************************************************)
(* Equality of values, and Map: insert, get by key, nth by position        *)
(* (value[k] = v, value[k], value.get(i)).                                 *)
(***************************************************************************)
\* an equality that leaves the type tag of the two values out
RECURSIVE are_equal_untagged(_, _)
are_equal_untagged(a, b) ==
    /\ a.num = b.num
    /\ a.bytes = b.bytes
    /\ Len(a.items) = Len(b.items)
    /\ \A i \in 1..Len(a.items) : are_equal_untagged(a.items[i], b.items[i])

\* a == b: the same tag and equal payloads, recursively
RECURSIVE are_equal(_, _)
are_equal(a, b) ==
    /\ a.tag = b.tag
    /\ a.num = b.num
    /\ a.bytes = b.bytes
    /\ Len(a.items) = Len(b.items)
    /\ \A i \in 1..Len(a.items) : are_equal(a.items[i], b.items[i])

\* the values a value is compared with
Others == { val \in ConstructorArgs : Constructible(val) }

Compare ==
    /\ amqpvalue # NoValue
    /\ \E other \in Others :
        vlog' = ValueLog("eq", 0, NoValue, other, "None",
                         <<Scalar("Bool", IF are_equal(amqpvalue, other) THEN 1 ELSE 0)>>)
    /\ UNCHANGED <<amqpvalue, encoded, transportVars, msgVars>>

\* the entries of a map: entry i (from 1) is the key at 2i-1 and the value at 2i
Entries(val) == Len(val.items) \div 2
KeyAt(val, i) == val.items[2 * i - 1]
ValueAt(val, i) == val.items[2 * i]

\* the entry whose key equals the key given, 0 when there is none
Find(val, key) ==
    IF \E i \in 1..Entries(val) : are_equal(KeyAt(val, i), key)
    THEN CHOOSE i \in 1..Entries(val) :
            /\ are_equal(KeyAt(val, i), key)
            /\ \A j \in 1..(i - 1) : ~are_equal(KeyAt(val, j), key)
    ELSE 0

\* an insert that never looks for the key
map_insert_appends(val, key, item) ==
    Gave([val EXCEPT !.items = @ \o <<key, item>>], <<>>, "None")

\* insert/overwrite(k, v)
map_insert(val, key, item) ==
    IF Find(val, key) = 0
    THEN Gave([val EXCEPT !.items = @ \o <<key, item>>], <<>>, "None")
    ELSE Gave([val EXCEPT !.items[2 * Find(val, key)] = item], <<>>, "None")

\* get(k): the value, or KeyNotFound
map_get(val, key) ==
    IF Find(val, key) = 0 THEN Gave(val, <<>>, "KeyError")
    ELSE Gave(val, <<ValueAt(val, Find(val, key))>>, "None")

\* nth(i): the key and the value of entry i (from 0)
map_nth(val, index) ==
    IF index >= Entries(val) THEN Gave(val, <<>>, "IndexError")
    ELSE Gave(val, <<KeyAt(val, index + 1), ValueAt(val, index + 1)>>, "None")

\* the keys of the maps: a String and a Symbol of the same bytes among them
Keys == { One, Two, Bytes("Symbol", <<79, 110, 101>>), Null }
\* the values stored under them
Stored == { Scalar("Int", 1), Scalar("Int", 2) }

MapInsert ==
    /\ amqpvalue.tag = "Map"
    /\ \E key \in Keys, item \in Stored :
        /\ Find(amqpvalue, key) # 0 \/ Entries(amqpvalue) < MaxMap
        /\ LET r == map_insert(amqpvalue, key, item) IN
            /\ amqpvalue' = r.value
            /\ vlog' = ValueLog("insert", 0, key, item, r.error, r.returned)
    /\ encoded' = <<>>
    /\ UNCHANGED <<transportVars, msgVars>>

MapGet ==
    /\ amqpvalue.tag = "Map"
    /\ \E key \in Keys :
        LET r == map_get(amqpvalue, key) IN
        vlog' = ValueLog("get", 0, key, NoValue, r.error, r.returned)
    /\ UNCHANGED <<amqpvalue, encoded, transportVars, msgVars>>

MapNth ==
    /\ amqpvalue.tag = "Map"
    /\ \E index \in 0..MaxMap :
        LET r == map_nth(amqpvalue, index) IN
        vlog' = ValueLog("nth", index, NoValue, NoValue, r.error, r.returned)
    /\ UNCHANGED <<amqpvalue, encoded, transportVars, msgVars>>

(***************************************************************************)
(* The transport, its peer and the messages.                               *)
(***************************************************************************)
Next ==
    \/ Connect
    \/ Close
    \/ \E v \in {<<>>, <<0>>} : Read(v)
    \/ RecvData
    \/ RecvClosed
    \/ RecvTimeout
    \/ RecvError
    \/ RecvNoSocket
    \/ HeaderDone
    \/ PayloadDone
    \/ Part1Done
    \/ Part2Done
    \/ Write
    \/ SendAll
    \/ SendSome
    \/ SendZero
    \/ SendTimeout
    \/ SendError
    \/ SendNoSocket
    \/ PeerSend
    \/ PeerSendControl
    \/ Negotiate
    \/ NegotiateReceive
    \/ PeerSendNegotiate
    \/ NewMessage
    \/ NewBatchMessage
    \/ BatchGetMessage
    \/ BodyAppend
    \/ BodySet
    \/ SetApplicationProperties
    \/ SetMessageAnnotations
    \/ GetMessage
    \/ OnMessageSent
    \/ NewValue
    \/ EncodeValue
    \/ DecodeValue
    \/ ListResize
    \/ ListSet
    \/ ListGet
    \/ Compare
    \/ MapInsert
    \/ MapGet
    \/ MapNth

Spec == Init /\ [][Next]_vars

\* The receive path of one connection: a caller that connects while it holds
\* no socket, and reads.
FirstConnect == sock = None /\ Connect

RecvNext ==
    \/ FirstConnect
    \/ \E v \in {<<>>, <<0>>} : Read(v)
    \/ RecvData
    \/ RecvClosed
    \/ RecvTimeout
    \/ RecvError
    \/ RecvNoSocket
    \/ HeaderDone
    \/ PayloadDone
    \/ Part1Done
    \/ Part2Done
    \/ PeerSend

SpecRecv == Init /\ [][RecvNext]_vars

\* The receive path over the frames of ControlPool: protocol headers, empty
\* frames, frames of another type or with a short data offset.
FrameNext ==
    \/ FirstConnect
    \/ \E v \in {<<>>, <<0>>} : Read(v)
    \/ RecvData
    \/ RecvClosed
    \/ RecvTimeout
    \/ RecvError
    \/ RecvNoSocket
    \/ HeaderDone
    \/ PayloadDone
    \/ PeerSendControl

SpecFrame == Init /\ [][FrameNext]_vars

\* Connection set-up: a caller that connects and negotiates, and a server
\* that answers.
NegotiateNext ==
    \/ FirstConnect
    \/ Negotiate
    \/ SendSome
    \/ SendZero
    \/ SendTimeout
    \/ SendError
    \/ SendNoSocket
    \/ NegotiateReceive
    \/ RecvData
    \/ RecvClosed
    \/ RecvTimeout
    \/ RecvError
    \/ HeaderDone
    \/ PayloadDone
    \/ PeerSendNegotiate

SpecNegotiate == Init /\ [][NegotiateNext]_vars

\* The send path alone: a caller that connects, closes and writes.
SendNext ==
    \/ Connect
    \/ Close
    \/ Write
    \/ SendAll
    \/ SendSome
    \/ SendZero
    \/ SendTimeout
    \/ SendError
    \/ SendNoSocket

SpecSend == Init /\ [][SendNext]_vars

\* One transport over its life: a caller that connects, closes, reads and
\* writes in any order, and a peer that sends one frame of type 1.
PeerSendSasl == framesSent = 0 /\ PeerSends({SaslFrame})

TransportNext ==
    \/ Connect
    \/ Close
    \/ \E v \in {<<>>, <<0>>} : Read(v)
    \/ RecvData
    \/ RecvClosed
    \/ RecvTimeout
    \/ RecvError
    \/ RecvNoSocket
    \/ HeaderDone
    \/ PayloadDone
    \/ Write
    \/ SendAll
    \/ SendSome
    \/ SendZero
    \/ SendTimeout
    \/ SendError
    \/ SendNoSocket
    \/ PeerSendSasl

SpecTransport == Init /\ [][TransportNext]_vars

\* The receive path when the peer declares a size below the header length: a
\* header whose size field is 5, and whole frames.
ShortSizeFrame == PackHeader(5, 2, 0, 0)
PeerSendShort == PeerSends({ShortSizeFrame, SmallFrame})

ShortNext ==
    \/ FirstConnect
    \/ \E v \in {<<>>, <<0>>} : Read(v)
    \/ RecvData
    \/ RecvClosed
    \/ RecvTimeout
    \/ RecvError
    \/ RecvNoSocket
    \/ HeaderDone
    \/ PayloadDone
    \/ PeerSendShort

SpecShort == Init /\ [][ShortNext]_vars

\* The messages alone: a caller that builds a message and works on its body.
MessageNext ==
    \/ NewMessage
    \/ NewBatchMessage
    \/ BatchGetMessage
    \/ BodyAppend
    \/ BodySet

SpecMessage == Init /\ [][MessageNext]_vars

\* A message on its way to a sender: built, changed, handed over, sent.
SealedNext ==
    \/ NewMessage
    \/ NewBatchMessage
    \/ BatchGetMessage
    \/ BodyAppend
    \/ BodySet
    \/ SetApplicationProperties
    \/ SetMessageAnnotations
    \/ GetMessage
    \/ OnMessageSent

SpecSealed == Init /\ [][SealedNext]_vars

\* The codec alone: a value is constructed, encoded, decoded.
CodecNext ==
    \/ NewValue
    \/ EncodeValue
    \/ DecodeValue

SpecCodec == Init /\ [][CodecNext]_vars

\* A List value under resize, set and get.
ListNext ==
    \/ NewValue
    \/ ListResize
    \/ ListSet
    \/ ListGet

SpecList == Init /\ [][ListNext]_vars

\* A Map value under insert, get and nth.
MapNext ==
    \/ NewValue
    \/ MapInsert
    \/ MapGet
    \/ MapNth

SpecMap == Init /\ [][MapNext]_vars

\* Two values compared.
EqualNext ==
    \/ NewValue
    \/ Compare

SpecEqual == Init /\ [][EqualNext]_vars

TypeOK ==
    /\ connected \in BOOLEAN
    /\ sock \in 0..MaxSock
    /\ openSocks \subseteq 1..MaxSock
    /\ pc \in {"idle", "write", "neg"} \cup ReadPcs

(***************************************************************************)
(* Properties.                                                             *)
(***************************************************************************)
ReadEnded(status) == pc = "idle" /\ call = "read" /\ result.status = status
WriteEnded(status) == pc = "idle" /\ call = "write" /\ result.status = status

\* C1: when read() times out after taking bytes of a frame from the socket
\* (part of the header, the header, the header and part of the payload, also
\* when the payload is read in two calls), all these bytes are in the pending
\* buffer, so that the next read() builds the frame from them and the bytes
\* that arrive later.
C1_TimeoutKeepsTakenBytes ==
    (clean /\ ReadEnded("timeout")) => _read_buffer = unreturned

\* C2: whatever the partial deliveries and read timeouts, the frames the
\* successful read() calls return are the frames put on the wire, in order:
\* none lost, duplicated, reordered or split.
C2_FramesInWireOrder ==
    clean => IsPrefix(rcvd, wireLog)

\* C3 as stated: every I/O error other than a timeout raised during read(),
\* the connection-closed error included, sets connected to False and reaches
\* the caller.
C3_EveryReadErrorDisconnects ==
    ReadEnded("ioerror") => ~connected

\* C3 as amended: an I/O error other than a timeout whose errno is not one of
\* _UNAVAIL (the connection-closed error has none) sets connected to False and
\* reaches the caller; one whose errno is in _UNAVAIL reaches the caller with
\* connected as it was.
C3_ReadErrorDisconnectsUnlessUnavail ==
    ReadEnded("ioerror") =>
        IF result.errno \in _UNAVAIL THEN connected = pre.connected ELSE ~connected

C3_Witness ==
    /\ ReadEnded("ioerror")
    /\ result.errno = NoErrno
    /\ pre.connected
    /\ ~connected

\* C4 as stated: a write() that times out or fails with an I/O error leaves
\* the transport disconnected.
C4_FailedWriteDisconnects ==
    (WriteEnded("timeout") \/ WriteEnded("ioerror")) => ~connected

\* C4 as amended: a write() that fails with an I/O error whose errno is not
\* one of _UNAVAIL leaves the transport disconnected; a write() that times
\* out, or fails with an errno of _UNAVAIL, leaves connected as it was.
C4_WriteErrorDisconnectsUnlessTransient ==
    /\ WriteEnded("ioerror") =>
        IF result.errno \in _UNAVAIL THEN connected = pre.connected ELSE ~connected
    /\ WriteEnded("timeout") => connected = pre.connected

C4_Witness ==
    /\ WriteEnded("ioerror")
    /\ result.errno = ECONNRESET
    /\ pre.connected
    /\ ~connected

\* C5: once an error has marked the transport disconnected, a later read() or
\* write() fails with a connection-closed error without a recv or send on the
\* socket, until connect() succeeds again.
C5_DisconnectedShortCircuits ==
    (call \in {"read", "write"} /\ ~pre.connected /\ pre.sock # None) =>
        /\ sockOps = <<>>
        /\ pc = "idle" => result.status = "ioerror"

\* C6: a read() that ends in a timeout leaves connected and sock as they were
\* when it was called.
C6_TimeoutLeavesConnection ==
    ReadEnded("timeout") => (connected = pre.connected /\ sock = pre.sock)

C6_Witness ==
    /\ ReadEnded("timeout")
    /\ connected
    /\ sock # None
    /\ _read_buffer # EMPTY_BUFFER

\* C7: close() on a transport whose sock is None makes no socket call, raises
\* nothing and leaves sock None and connected False.
C7_CloseIdempotent ==
    (pc = "idle" /\ call = "close" /\ pre.sock = None) =>
        /\ sockOps = <<>>
        /\ result.status = "ok"
        /\ sock = None
        /\ ~connected
        /\ ~pre.connected

C7_Witness ==
    /\ pc = "idle" /\ call = "close" /\ pre.sock = None
    /\ result.status = "ok"
    /\ sock = None

\* C8: whether or not the unwrap, the shutdown or the close of the socket
\* raises, after close() the socket is closed, sock is None and connected is
\* False.
C8_CloseAlwaysReleases ==
    (pc = "idle" /\ call = "close") =>
        /\ sock = None
        /\ ~connected
        /\ pre.sock \notin openSocks

\* C9: closing a TLS transport calls unwrap, then shutdown, then close, and a
\* failed unwrap keeps neither the shutdown nor the close from being made.
C9_UnwrapShutdownClose ==
    (pc = "idle" /\ call = "close" /\ kind = "SSL" /\ pre.sock # None) =>
        /\ IsPrefix(OpNames(sockOps), <<"unwrap", "shutdown", "close">>)
        /\ Len(sockOps) >= 2
        /\ sockOps[2].ok => Len(sockOps) = 3

C9_Witness ==
    /\ pc = "idle" /\ call = "close" /\ kind = "SSL" /\ pre.sock # None
    /\ ~sockOps[1].ok
    /\ OpNames(sockOps) = <<"unwrap", "shutdown", "close">>
    /\ sock = None

\* C10: a successful read() of a frame whose header declares the size sz # 0
\* takes sz bytes: the 8 of the header and sz - 8 of payload; above
\* SIGNED_INT_MAX the two payload reads ask for lengths that add up to sz - 8.
C10_ReadsDeclaredSize ==
    /\ (ReadEnded("frame") /\ result.hasPayload) =>
        Len(result.header) + Len(result.payload) = unpack_frame_header(result.header).size
    /\ pc = "pay2" =>
        Len(payload) + n = unpack_frame_header(frame_header).size - Len(frame_header)

\* the step of read() that has the 8 header bytes and parses them
HeaderStep == call = "read" /\ pc = "hdr" /\ Len(rbuf) >= n /\ pc' # "hdr"

\* C11: read() called with the expected frame type t raises the
\* unexpected-frame error, and returns no frame, whenever the type byte of the
\* frame received differs from t; called with None it accepts every type.
C11_TypeGuard ==
    [][HeaderStep =>
        LET h == unpack_frame_header(SliceTo(rbuf, n)) IN
        IF verify_frame_type = <<>>
        THEN result'.status # "unexpected"
        ELSE (SubSeq(rbuf, 1, 4) # AMQP /\ h.frame_type # verify_frame_type[1])
                => (pc' = "idle" /\ result'.status = "unexpected")]_vars

\* C12: when the size field of the 8 header bytes is 0, or they begin with
\* 'AMQP', read() returns the header with payload None in the step that has
\* parsed it, taking no byte from the stream and leaving what follows the 8
\* bytes pending; receive_frame() hands the 8 bytes to decode_empty_frame.
C12_HeaderOnlyFrames ==
    [][(HeaderStep /\ (SubSeq(rbuf, 1, 4) = AMQP \/ SubSeq(rbuf, 1, 4) = <<0, 0, 0, 0>>)) =>
        /\ pc' = "idle"
        /\ result'.status = "frame"
        /\ result'.header = SubSeq(rbuf, 1, 8)
        /\ ~result'.hasPayload
        /\ wire' = wire
        /\ _read_buffer' = SubSeq(rbuf, 9, Len(rbuf))
        /\ receive_frame(result').decoder = "decode_empty_frame"
        /\ receive_frame(result').data = SubSeq(rbuf, 1, 8)]_vars

C12_Witness ==
    /\ ReadEnded("frame")
    /\ result.header \in {AmqpHeader, Heartbeat}
    /\ ~result.hasPayload
    /\ wire # <<>>

\* C17: receive_frame() rejects a frame with a payload whose data offset is
\* below 2 with a malformed-frame error: decode_frame is never handed the
\* negative offset doff - 2.
C17_ShortDoffRejected ==
    (ReadEnded("frame") /\ result.hasPayload /\ result.offset < 2) =>
        /\ receive_frame(result).status = "malformed"
        /\ receive_frame(result).decoder = "none"

\* C13: the write loop of the TLS transport returns only when the socket has
\* accepted every byte of s, in order: after a send that accepted k bytes it
\* goes on with the bytes from the k-th on, and a send that accepts nothing
\* ends the write with an error, it neither returns nor sends again.
C13_WriteSendsEverything ==
    /\ []((call = "write" /\ kind = "SSL") =>
            /\ pc = "write" => (s # <<>> /\ sent \o s \in WriteInputs)
            /\ WriteEnded("ok") => (s = <<>> /\ sent \in WriteInputs))
    /\ [][(call = "write" /\ kind = "SSL" /\ pc = "write"
              /\ <<pc, s, sent, result>>' # <<pc, s, sent, result>>) =>
            \/ \E k \in 1..Len(s) :
                /\ sent' = sent \o SubSeq(s, 1, k)
                /\ s' = SubSeq(s, k + 1, Len(s))
                /\ IF k = Len(s) THEN pc' = "idle" /\ result'.status = "ok"
                   ELSE pc' = "write" /\ result' = result
            \/ pc' = "idle" /\ result'.status \in {"ioerror", "timeout", "raised"}]_vars

C13_Witness ==
    /\ call = "write" /\ kind = "SSL" /\ pc = "write"
    /\ sent # <<>>
    /\ s # <<>>
    /\ sent \o s \in WriteInputs

NegotiateEnded(status) == pc = "idle" /\ call = "negotiate" /\ result.status = status

\* C14: negotiate() sends the 8-byte protocol header of its transport
\* (protocol-id 0 on the plain transport, 2 on the TLS transport), then reads
\* the header of the server; it returns normally only when that header has the
\* same protocol-id.
C14_NegotiateExchangesHeaders ==
    /\ (call = "negotiate" /\ pc \in ReadPcs) => sent = HeaderFrameData(kind)
    /\ NegotiateEnded("ok") =>
        /\ sent = (IF kind = "SSL" THEN AMQP \o <<2, 1, 0, 0>> ELSE AMQP \o <<0, 1, 0, 0>>)
        /\ SubSeq(result.header, 1, 5) = SubSeq(sent, 1, 5)

\* C15: on the TLS transport the socket is wrapped and the TLS handshake made
\* only in negotiate(), after the exchange of the TLS protocol headers has
\* succeeded; connect() does not wrap the socket.
C15_UpgradeAfterHeaderExchange ==
    /\ \A i \in 1..Len(sockOps) :
        sockOps[i].op \in {"wrap_socket", "do_handshake"} =>
            (call = "negotiate" /\ sent = TlsHeader)
    /\ (kind = "SSL" /\ NegotiateEnded("ok")) =>
        \E i \in 1..Len(sockOps) : sockOps[i].op = "do_handshake"

ConnectTried == pc = "idle" /\ call = "connect" /\ ~pre.connected
AddrOk(ops) == \E i \in 1..Len(ops) : ops[i].op = "connect" /\ ops[i].ok
Resolved(ops, family) ==
    \E i \in 1..Len(ops) : ops[i].op = "getaddrinfo" /\ ops[i].family = family
Tried(ops, family) ==
    Cardinality({i \in 1..Len(ops) : ops[i].op = "connect" /\ ops[i].family = family})

C18_InitialInterrupt ==
    /\ (ReadEnded("timeout") /\ sockOps = Interrupted) =>
        (raise_on_initial_eintr /\ Len(_read_buffer) < 8)
    /\ (call = "read" /\ pc = "hdr" /\ sockOps = Interrupted) => ~raise_on_initial_eintr
    /\ (call = "read" /\ pc \in ReadPcs /\ sockOps = Interrupted) => result.status = "running"
    /\ ReadEnded("ioerror") => result.errno \notin {EINTR, EAGAIN}

C18_Witness ==
    /\ call = "read" /\ pc \in {"pay", "pay1", "pay2"}
    /\ sockOps = Interrupted
    /\ raise_on_initial_eintr
    /\ result.status = "running"

\* the blobs the batch encoder makes of a sequence of payloads, in order
BlobsOf(payloads) ==
    [ i \in 1..Len(payloads) |->
        Envelope(IF payloads[i].t = "str" THEN Utf8(payloads[i].v) ELSE payloads[i].v) ]

\* C19: BatchMessage.get_message() pulls every payload of the supplied
\* sequence once and in order and appends one Data blob per payload: a call
\* leaves the body as it was followed by the blobs of the payloads, in the
\* supplied order, and leaves nothing to pull from a generator; on a batch
\* just built from payloads alone it does not raise and the body then holds
\* as many blobs as payloads were supplied.
C19_BatchOneBlobPerPayload ==
    [][BatchGetMessage =>
        /\ ~mlog'.raised => _message'.data = _message.data \o BlobsOf(_body_gen.items)
        /\ _body_gen.kind = "generator" => _body_gen'.items = <<>>
        /\ (mlog.call = "BatchMessage" /\ ~mlog.before.exists) =>
            /\ ~mlog'.raised
            /\ Len(_message'.data) = Len(mlog.yielded)
            /\ _message'.data = BlobsOf(mlog.yielded)]_vars

C19_Witness ==
    /\ mlog.call = "get_message"
    /\ ~mlog.raised
    /\ ~mlog.before.exists \/ mlog.before.data = <<>>
    /\ Len(mlog.yielded) = MaxBatch
    /\ mlog.yielded[1] # mlog.yielded[2]
    /\ Len(_message.data) = MaxBatch
    /\ _message.data[1] # _message.data[2]

\* the shapes of which a message holds sections
ShapesHeld(m) ==
    { shape \in {"DataType", "SequenceType", "ValueType"} :
        \/ shape = "DataType" /\ m.data # <<>>
        \/ shape = "SequenceType" /\ m.sequence # <<>>
        \/ shape = "ValueType" /\ m.value # <<>> }

ShapeOfBody(body) ==
    IF body.t \in {"str", "bytes"} THEN "DataType"
    ELSE IF body.t = "list" THEN "SequenceType"
    ELSE "ValueType"

Content == <<_message, application_properties, message_annotations>>

\* C21: once get_message() has handed the message to a sender, no operation
\* on the message object changes what the underlying message holds.
C21_SealedAfterHandOver ==
    [][handedOver => Content' = Content]_vars

\* C22: decoding the bytes the encoder made of a constructible value gives a
\* value equal to it, same type tag and same payload, recursively, and uses
\* up the bytes.
C22_DecodeEncodeRoundTrip ==
    vlog.op = "decode" =>
        /\ vlog.error = "None"
        /\ vlog.returned = <<amqpvalue>>
        /\ vlog.index = 0
        /\ encoded = Encode(vlog.returned[1])

C22_Witness ==
    /\ vlog.op = "decode"
    /\ vlog.error = "None"
    /\ amqpvalue.tag = "Map"
    /\ Len(amqpvalue.items) = 4
    /\ vlog.returned[1].items[4] = Scalar("Int", 2)

\* a step that ends with the named operation on the value as the last one
Did(op) == vlog'.op = op

\* position i (from 0) of a list, or nothing beyond the end
At(val, index) == IF index < Len(val.items) THEN <<val.items[index + 1]>> ELSE <<>>

\* C23: on a List, resize(n) makes the size n, keeps the positions that stay
\* and fills the new ones with Null; set(i, v) with i < size makes get(i)
\* return v and leaves every other position as it was; set(i, v) with
\* i >= size fails with an index error and leaves the list unchanged.
C23_ListResizeSet ==
    [][/\ Did("resize") =>
            /\ vlog'.error = "None"
            /\ Len(amqpvalue'.items) = vlog'.index
            /\ \A i \in 0..MaxList :
                i < vlog'.index =>
                    At(amqpvalue', i) = (IF i < Len(amqpvalue.items) THEN At(amqpvalue, i)
                                         ELSE <<Null>>)
       /\ Did("set") =>
            IF vlog'.index < Len(amqpvalue.items)
            THEN /\ vlog'.error = "None"
                 /\ list_get(amqpvalue', vlog'.index).returned = <<vlog'.item>>
                 /\ Len(amqpvalue'.items) = Len(amqpvalue.items)
                 /\ \A i \in 0..MaxList :
                     i # vlog'.index => At(amqpvalue', i) = At(amqpvalue, i)
            ELSE /\ vlog'.error = "IndexError"
                 /\ amqpvalue' = amqpvalue
       /\ Did("get") =>
            /\ amqpvalue' = amqpvalue
            /\ vlog'.index < Len(amqpvalue.items) => vlog'.returned = At(amqpvalue, vlog'.index)
            /\ vlog'.index >= Len(amqpvalue.items) => vlog'.error = "IndexError"]_vars

\* a list grown to its largest size, a position set, and a set beyond the end
\* refused
C23_Witness ==
    /\ amqpvalue.tag = "List"
    /\ Len(amqpvalue.items) = MaxList
    /\ amqpvalue.items[1] = True
    /\ amqpvalue.items[MaxList] = Null
    /\ vlog.op = "set"
    /\ vlog.error = "IndexError"
    /\ vlog.index = MaxList

\* the entries whose key is, tag and payload, the key given
Holding(val, key) == { i \in 1..Entries(val) : KeyAt(val, i) = key }

\* C24: on a Map, an insert under a key not yet there adds the entry after
\* all the others and an insert under a key already there replaces the value
\* in place, so that the entries stay in the order their keys were first
\* inserted; get(k) returns the value stored under the key that has the tag
\* and the payload of k and fails with a key error when there is none;
\* nth(i) returns the key and the value of entry i and fails with an index
\* error when i is not below the number of entries.
C24_MapInsertGetNth ==
    /\ [](amqpvalue.tag = "Map" =>
            \A i, j \in 1..Entries(amqpvalue) :
                KeyAt(amqpvalue, i) = KeyAt(amqpvalue, j) => i = j)
    /\ [][/\ (Did("insert") /\ amqpvalue.tag = "Map") =>
               /\ vlog'.error = "None"
               /\ IF Holding(amqpvalue, vlog'.key) = {}
                  THEN amqpvalue'.items = amqpvalue.items \o <<vlog'.key, vlog'.item>>
                  ELSE /\ Entries(amqpvalue') = Entries(amqpvalue)
                       /\ \A i \in 1..Entries(amqpvalue) :
                           /\ KeyAt(amqpvalue', i) = KeyAt(amqpvalue, i)
                           /\ ValueAt(amqpvalue', i) =
                               (IF i \in Holding(amqpvalue, vlog'.key) THEN vlog'.item
                                ELSE ValueAt(amqpvalue, i))
               /\ map_get(amqpvalue', vlog'.key).returned = <<vlog'.item>>
          /\ (Did("get") /\ amqpvalue.tag = "Map") =>
               /\ amqpvalue' = amqpvalue
               /\ (Holding(amqpvalue, vlog'.key) = {}) => vlog'.error = "KeyError"
               /\ \A i \in Holding(amqpvalue, vlog'.key) :
                   (vlog'.error = "None" /\ vlog'.returned = <<ValueAt(amqpvalue, i)>>)
          /\ Did("nth") =>
               /\ amqpvalue' = amqpvalue
               /\ (vlog'.index >= Entries(amqpvalue)) => vlog'.error = "IndexError"
               /\ (vlog'.index < Entries(amqpvalue)) =>
                   /\ vlog'.error = "None"
                   /\ vlog'.returned = <<KeyAt(amqpvalue, vlog'.index + 1),
                                         ValueAt(amqpvalue, vlog'.index + 1)>>]_vars

\* a String key and a Symbol key of the same bytes side by side, the second
\* entry read by position
C24_Witness ==
    /\ amqpvalue.tag = "Map"
    /\ Entries(amqpvalue) = MaxMap
    /\ KeyAt(amqpvalue, 1) = One
    /\ KeyAt(amqpvalue, 2) = Bytes("Symbol", <<79, 110, 101>>)
    /\ vlog.op = "nth"
    /\ vlog.index = 1
    /\ vlog.returned = <<KeyAt(amqpvalue, 2), ValueAt(amqpvalue, 2)>>

\* C25: two values compare equal exactly when they have the same tag and
\* equal payloads, recursively: two Nulls are equal, Int(42) equals Int(42),
\* Int(5) differs from Long(5) and Symbol("x") from String("x").
C25_EqualityStructuralWithTag ==
    vlog.op = "eq" =>
        /\ (vlog.returned = <<True>>) <=> (amqpvalue = vlog.item)
        /\ (amqpvalue.tag # vlog.item.tag) => vlog.returned = <<Scalar("Bool", 0)>>
        /\ (amqpvalue = Null /\ vlog.item = Null) => vlog.returned = <<True>>
        /\ (amqpvalue = Int42 /\ vlog.item = Int42) => vlog.returned = <<True>>

C25_Witness ==
    /\ vlog.op = "eq"
    /\ amqpvalue = Scalar("Int", 5)
    /\ vlog.item = Scalar("Long", 5)
    /\ vlog.returned = <<Scalar("Bool", 0)>>

\* C26: when connect() raises, whether no address connected or the socket
\* set-up (options, TLS wrap, handshake) failed after one did, sock is None,
\* connected is False and no socket this call opened is left open.
C26_FailedConnectReleases ==
    [][(Connect /\ result'.status = "ioerror") =>
        /\ sock' = None
        /\ ~connected'
        /\ openSocks' \subseteq openSocks]_vars

\* a connect() that reached an address and failed in the socket set-up
C26_Witness ==
    /\ ConnectTried
    /\ result.status = "ioerror"
    /\ AddrOk(sockOps)
    /\ sock = None
    /\ openSocks = {}

\* C27: whenever read() raises and leaves connected True (a timeout, an I/O
\* error whose errno is in _UNAVAIL, a frame of another type than the one
\* asked for), every byte it has taken from the socket and not returned is in
\* the pending buffer, so the next read() starts at the same frame boundary.
C27_ErrorKeepsTakenBytes ==
    [][(/\ clean
        /\ call = "read"
        /\ pc \in ReadPcs
        /\ pc' = "idle"
        /\ result'.status \in {"timeout", "ioerror", "unexpected"}
        /\ connected') => _read_buffer' = unreturned']_vars

\* C28: after close() followed by a successful connect(), on the plain and on
\* the TLS transport, the pending read buffer is empty: no byte of the previous
\* connection is left for the first read() of the new one.
C28_ReconnectEmptiesBuffer ==
    [][(/\ call = "close"
        /\ sock = None
        /\ Connect
        /\ connected') => _read_buffer' = EMPTY_BUFFER]_vars

\* C29: the transport holds at most one open socket at any time.
C29_OneOpenSocket == Cardinality(openSocks) <= 1

\* C30: in every state reached by connect, close, read and write calls, the
\* calls that raise included, connected being True implies that sock is not
\* None.
C30_ConnectedHasSocket == connected => sock # None

\* a close() that raised on a connected transport: socket and flag are kept
C30_Witness ==
    /\ pc = "idle"
    /\ call = "close"
    /\ result.status = "ioerror"
    /\ connected
    /\ sock # None

\* C31: BatchMessage.get_message() is idempotent on the body: a call that
\* follows a call that went through adds no Data blob, whether the payloads
\* were supplied as a generator or as a list.
C31_GetMessageIdempotent ==
    [][(/\ BatchGetMessage
        /\ mlog.call = "get_message"
        /\ ~mlog.raised) => _message'.data = _message.data]_vars

\* C32: read() never returns a frame whose header declares a size of 1 to 7,
\* below the 8 bytes of the header itself: such a header ends in an error.
C32_ShortSizeRaises ==
    ReadEnded("frame") =>
        ~(/\ ~unpack_frame_header(result.header).isNone
          /\ unpack_frame_header(result.header).size \in 1..7)

====
